---- MODULE Spec2Model ----
(***************************************************************************)
(* Model of the agent execution engine of fscm/orchestrator.py:            *)
(*   - AgentRunner._invoke_with_retry  (retry / backoff policy)            *)
(*   - AgentRunner.run                 (conversation loop)                 *)
(*   - Orchestrator.run                (delegation supervisor)             *)
(* and of the question pipeline of fscm/markdown_processor.py:             *)
(*   - parse_markdown_questions, process_questions,                        *)
(*     write_answers_to_markdown, process_markdown_file                    *)
(* of the configuration snapshot of fscm/agent_config.py, and of the       *)
(* alias resolution and the chat loop of fscm/agents.py.                   *)
(* The model provider and the tools are the environment: every provider    *)
(* call nondeterministically returns an assistant message or raises, and   *)
(* a tool returns text or raises depending on the arguments it is given.   *)
(* Texts are sequences of string tokens, so that f-string formatting is    *)
(* concatenation and substring tests are tests on tokens.                  *)
(***************************************************************************)
EXTENDS Integers, Sequences, FiniteSets, TLC

VARIABLES
    mode,            \* entry point: "retry", "agent", "toolless", "orchestrator",
                     \* "pipeline", "config", "budget", "alias" or "chat"
    varied,          \* environment: what the provider has spent of MaxVaried
    \* ---- frame of AgentRunner._invoke_with_retry
    retry_pc,        \* "idle" | "loop" | "returned" | "raised"
    retry_messages,  \* parameter messages
    max_retries,     \* parameter max_retries
    attempt,         \* loop variable attempt
    wait_time,       \* local wait_time
    sleeps,          \* observed: durations passed to time.sleep by this call
    outcomes,        \* observed: how each llm_with_tools.invoke of this call ended
    error_str,       \* local error_str of the pass that raises out of the call
    retry_ret,       \* value returned by the call (NoMsg while none)
    retry_err,       \* text of the exception raised by the call (<<>> while none)
    \* ---- frame of AgentRunner.run
    run_pc,          \* "idle" | "await" | "dispatch" | "returned" | "raised"
    agent_name,      \* self.agent_name
    tools,           \* names in tools_by_name
    messages,        \* local messages
    iteration,       \* provider requests made by the loop so far
    response,        \* local response
    tc,              \* position of the next tool_call of response to execute
    invoked,         \* observed: <<name, args>> of every tool.invoke of this run
    run_ret,         \* returned response.content (<<>> while none)
    run_err,         \* text of the exception leaving run (<<>> while none)
    \* ---- frame of Orchestrator.run
    sup_pc,          \* "idle" | "await" | "dispatch" | "delegating" | "returned" | "raised"
    sup_messages,    \* local messages
    sup_iter,        \* supervisor provider requests made so far
    sup_response,    \* local response
    sup_tc,          \* position of the next tool_call of response to handle
    agent_responses, \* local agent_responses
    delegated,       \* observed: registry keys of the delegate runs started
    sup_ret,         \* returned response.content (<<>> while none)
    sup_err,         \* text of the exception leaving run (<<>> while none)
    \* ---- frames of process_markdown_file and process_questions
    pipe_pc,         \* "idle" | "ask" | "persist" | "returned" | "raised"
    original_content, \* the lines read from the input file
    dry_run,         \* parameter dry_run
    output_arg,      \* parameter output_path of process_markdown_file ("" for None)
    output_path,     \* output_path of process_questions ("" for None)
    context,         \* parameter context
    questions,       \* parameter questions
    q_index,         \* position in questions of the loop variable q
    answers,         \* local answers
    agent_runs,      \* observed: agent, full_query and end of every run_single_agent
    files,           \* the documents stored at the input and the output path
    writes,          \* observed: path and text of every write_text
    pipe_ret,        \* value returned by process_markdown_file (<<>> while none)
    pipe_err,        \* text of the exception leaving process_questions
    earlier_runs,    \* observed: agent_runs of the run of process_questions before this one
    earlier_writes,  \* observed: writes of the run of process_questions before this one
    \* ---- agent_config.py and the sessions constructed
    AGENT_CONFIGS,   \* the module global: position in snapshots of the dict it refers to
    snapshots,       \* every dict _load_agent_configs has returned, in order
    sessions,        \* the AgentRunner and Orchestrator objects constructed, in order
    born,            \* observed: per session, AGENT_CONFIGS and its view at construction
    used,            \* observed: per session, AGENT_CONFIGS and its view at its latest run
    \* ---- totals over one AgentRunner.run (kept in the budget model only)
    invocations,     \* observed: number of llm_with_tools.invoke calls
    slept,           \* observed: seconds passed to time.sleep
    \* ---- one alias resolution
    alias_pc,        \* "given" | "resolved"
    caller,          \* who resolves: "markdown", "ask" or "chat"
    found_mentions,  \* the @words of the text, in order
    agent_option,    \* the --agent option of ask ("" for None)
    resolved,        \* the agent name resolved to ("" while none)
    \* ---- frame of chat_mode (agents.py)
    chat_pc,         \* "idle" | "input" | "running" | "ended" | "interrupted"
    chat_history,    \* local chat_history: <<question, agent, answer>> tuples
    chat_agent,      \* local agent_name of the turn whose agent runs ("" while none)
    cleaned_query,   \* local cleaned_query of the turn whose agent runs
    chat_query,      \* local full_query of the turn whose agent runs
    turns            \* observed: what every pass of the while loop has read and done

retry_vars == <<retry_pc, retry_messages, max_retries, attempt, wait_time, sleeps, outcomes,
                error_str, retry_ret, retry_err>>
run_vars == <<run_pc, agent_name, tools, messages, iteration, response, tc,
              invoked, run_ret, run_err>>
sup_vars == <<sup_pc, sup_messages, sup_iter, sup_response, sup_tc,
              agent_responses, delegated, sup_ret, sup_err>>
pipe_vars == <<pipe_pc, original_content, dry_run, output_arg, output_path, context, questions, q_index,
               answers, agent_runs, files, writes, pipe_ret, pipe_err,
               earlier_runs, earlier_writes>>
cfg_vars == <<AGENT_CONFIGS, snapshots, sessions, born, used>>
obs_vars == <<invocations, slept>>
alias_vars == <<alias_pc, caller, found_mentions, agent_option, resolved>>
chat_vars == <<chat_pc, chat_history, chat_agent, cleaned_query, chat_query, turns>>
vars == <<mode, varied, retry_vars, run_vars, sup_vars, pipe_vars, cfg_vars, obs_vars, alias_vars,
          chat_vars>>

(***************************************************************************)
(* Program constants.                                                      *)
(***************************************************************************)
MAX_RETRIES == 3
INITIAL_WAIT_SECONDS == 60
MAX_WAIT_SECONDS == 300
\* (variant: the loop of run allows one pass more)
max_iterations_one_more == 10 + 1
max_iterations == 10
\* (variant: the loop of Orchestrator.run allows one pass more)
sup_max_iterations_one_more == 10 + 1
sup_max_iterations == 10

(***************************************************************************)
(* Bounds of the model.                                                    *)
(***************************************************************************)
\* largest max_retries argument tried when _invoke_with_retry is called alone
MaxRetriesArg == 5
\* what the provider may spend, over one top-level run, on leaving the plain
\* script (see Cost): extra tool calls, failing or unknown tools, other agents
MaxVaried == 2
\* longest document given to process_markdown_file, in lines
MaxLines == 3
\* most objects on the heap of the configuration model: the snapshots loaded
\* and the sessions constructed, together
MaxObjects == 5
\* most lines read by one chat_mode
MaxTurns == 4

Min(a, b) == IF a < b THEN a ELSE b

(***************************************************************************)
(* Messages.                                                               *)
(***************************************************************************)
NoId == "-"
Msg(role, content, tool_calls, tool_call_id) ==
    [role |-> role, content |-> content, tool_calls |-> tool_calls,
     tool_call_id |-> tool_call_id]
SystemMessage(content) == Msg("system", content, <<>>, NoId)
HumanMessage(content) == Msg("user", content, <<>>, NoId)
AIMessage(content, tool_calls) == Msg("assistant", content, tool_calls, NoId)
ToolMessage(content, tool_call_id) == Msg("tool_result", content, <<>>, tool_call_id)
NoMsg == Msg("none", <<>>, <<>>, NoId)

ToolCall(id, name, args) == [id |-> id, name |-> name, args |-> args]

(***************************************************************************)
(* Texts: sequences of tokens.  str.lower() acts token by token, and       *)
(* "x in s" holds when x is one of the tokens of s.                        *)
(***************************************************************************)
\* the words that are written with capital letters somewhere in the model,
\* each with its lower-case form
Cased ==
    {<<"RATE_LIMIT", "rate_limit">>,
     <<"Research", "research">>, <<"RESEARCH", "research">>, <<"reSearch", "research">>,
     <<"Res", "res">>, <<"RES", "res">>, <<"R", "r">>,
     <<"Projektleiter", "projektleiter">>, <<"PROJEKTLEITER", "projektleiter">>,
     <<"PM", "pm">>, <<"Pm", "pm">>, <<"pM", "pm">>, <<"PL", "pl">>, <<"Pl", "pl">>,
     <<"Project", "project">>, <<"PROJECT", "project">>,
     <<"Architekt", "architekt">>, <<"ARCHITEKT", "architekt">>,
     <<"Architect", "architect">>, <<"ARCHITECT", "architect">>,
     <<"Arch", "arch">>, <<"ARCH", "arch">>, <<"aRcH", "arch">>,
     <<"SA", "sa">>, <<"Sa", "sa">>, <<"sA", "sa">>,
     <<"Supervisor", "supervisor">>, <<"XYZ", "xyz">>,
     <<"EXIT", "exit">>}
\* str.lower() of one token
Lower(tok) ==
    IF \E c \in Cased : c[1] = tok
    THEN (CHOOSE c \in Cased : c[1] = tok)[2]
    ELSE tok
LowerText(s) == [i \in 1..Len(s) |-> Lower(s[i])]
Contains(s, tok) == \E i \in 1..Len(s) : s[i] = tok

\* the errors the provider can raise, as str(e)
Err429 == <<"Error code: ", "429", " Too Many Requests">>
ErrRateLimit == <<"RATE_LIMIT", " exceeded">>
ErrAuth == <<"Error code: ", "401", " Unauthorized">>
ProviderErrors == {Err429, ErrRateLimit, ErrAuth}
\* what the provider signals with an error: throttling or something else
ErrorKind(e) == IF e \in {Err429, ErrRateLimit} THEN "rate_limit" ELSE "error"

\* (variant: every provider error is taken for a rate limit)
IsRateLimitError_any(text) == TRUE

\* orchestrator.py line 112
IsRateLimitError(text) ==
    Contains(text, "429") \/ Contains(LowerText(text), "rate_limit")

\* orchestrator.py line 128 (the u-umlaut of the source is written ue)
RetriesExhaustedText(mr, text) ==
    <<"Rate limit: Max retries (", ToString(mr), ") ueberschritten. ">> \o text
\* orchestrator.py line 133
LoopEndText == <<"Max retries exceeded">>

(***************************************************************************)
(* The environment: tools and the provider's replies.                      *)
(***************************************************************************)
KnownTool == "query_knowledge_base"
UnknownTool == "no_such_tool"
GoodArgs == "q"
BadArgs == "bad"
\* a bound tool returns text, or raises: decided by its arguments
ToolRaises(name, args) == args = BadArgs
ToolText(name, args) == <<"result of ", name, "(", args, ")">>
ToolErrorText(name, args) == <<"cannot handle ", args>>

CallKinds == {<<KnownTool, GoodArgs>>, <<KnownTool, BadArgs>>, <<UnknownTool, GoodArgs>>}
CallId(k) == "call_" \o ToString(k)
\* tool_calls lists: ids are unique within a list (the position), not across turns
ToolCallLists ==
    UNION {{[k \in 1..n |-> ToolCall(CallId(k), f[k][1], f[k][2])] : f \in [1..n -> CallKinds]}
           : n \in 1..(MaxVaried + 1)}
\* the plain script is one successful call of the bound tool per turn; a list
\* costs one per call beyond the first and one per call that is no such call
CallsCost(tcs) ==
    (Len(tcs) - 1)
    + Cardinality({k \in 1..Len(tcs) : ~(tcs[k].name = KnownTool /\ tcs[k].args = GoodArgs)})

ReplyContent(k) == <<"reply ", ToString(k)>>

\* the supervisor's capability (orchestrator.py line 224); the provider of a
\* delegate may ask for it too, although the delegate was never offered it
DelegateTool == "delegate_to_agent"
NestingLists == {<<ToolCall(CallId(1), DelegateTool, GoodArgs)>>}
\* the tool_calls lists the provider of the running agent chooses from
RunnerLists ==
    IF mode = "orchestrator" THEN ToolCallLists \cup NestingLists ELSE ToolCallLists
\* under a supervisor every tool-bearing turn of a delegate costs one more;
\* asking for the delegate capability costs as the plain script does
ListCost(l) ==
    IF l \in NestingLists THEN 1
    ELSE CallsCost(l) + (IF mode = "orchestrator" THEN 1 ELSE 0)

\* the assistant messages the provider may return to the AgentRunner now
RunnerReplies ==
    LET content == ReplyContent(iteration + 1)
        spare == IF mode = "budget" THEN 0 ELSE MaxVaried - varied
    IN  {AIMessage(content, <<>>)}
        \cup (IF mode = "retry" THEN {}
              ELSE {AIMessage(content, tcs) : tcs \in
                      {l \in RunnerLists : ListCost(l) <= spare}})
ReplyCost(msg) ==
    IF msg.tool_calls = <<>> THEN 0 ELSE ListCost(msg.tool_calls)

(***************************************************************************)
(* AgentRunner._invoke_with_retry                                          *)
(***************************************************************************)
\* (variant: a call resumes with a wait grown by what the run has slept)
EnterInvokeWithRetry_resumes(msgs, mr) ==
    /\ retry_pc' = "loop"
    /\ retry_messages' = msgs
    /\ max_retries' = mr
    /\ attempt' = 0
    /\ wait_time' = Min(INITIAL_WAIT_SECONDS + slept, MAX_WAIT_SECONDS)
    /\ sleeps' = <<>>
    /\ outcomes' = <<>>
    /\ error_str' = <<>>
    /\ retry_ret' = NoMsg
    /\ retry_err' = <<>>

\* entry of the call: lines 89, 103 and the start of the for loop at 105
EnterInvokeWithRetry(msgs, mr) ==
    /\ retry_pc' = "loop"
    /\ retry_messages' = msgs
    /\ max_retries' = mr
    /\ attempt' = 0
    /\ wait_time' = INITIAL_WAIT_SECONDS
    /\ sleeps' = <<>>
    /\ outcomes' = <<>>
    /\ error_str' = <<>>
    /\ retry_ret' = NoMsg
    /\ retry_err' = <<>>

\* (variant: the wait is never doubled)
NextWait_constant(w) == w
\* (variant: the doubled wait is not capped)
NextWait_uncapped(w) == w * 2

\* line 125
NextWait(w) == Min(w * 2, MAX_WAIT_SECONDS)

\* (variant: the last pass of the loop sleeps and continues too)
MayRetry_inclusive(n, mr) == n <= mr

\* line 113
MayRetry(n, mr) == n < mr

\* a total over the run, kept in the budget model only
Counted(total, n) == IF mode = "budget" THEN total + n ELSE total

\* what the observer records of one llm_with_tools.invoke
Outcome(kind, reply) == [kind |-> kind, reply |-> reply]

\* line 107: the provider returns
AttemptReturns(msg) ==
    /\ outcomes' = Append(outcomes, Outcome("ok", msg))
    /\ retry_pc' = "returned"
    /\ retry_ret' = msg
    /\ varied' = varied + ReplyCost(msg)
    /\ invocations' = Counted(invocations, 1)
    /\ UNCHANGED <<attempt, wait_time, sleeps, error_str, retry_err, slept>>

\* lines 108-131: the provider raises an exception with text error_str
\* (error_str is dead after "continue": it is kept only when the pass raises)
AttemptRaises(e) ==
    /\ outcomes' = Append(outcomes, Outcome(ErrorKind(e), NoMsg))
    /\ varied' = varied
    /\ invocations' = Counted(invocations, 1)
    /\ IF IsRateLimitError(e)
       THEN IF MayRetry(attempt, max_retries)
            THEN /\ sleeps' = Append(sleeps, wait_time)
                 /\ slept' = Counted(slept, wait_time)
                 /\ wait_time' = NextWait(wait_time)
                 /\ attempt' = attempt + 1
                 /\ UNCHANGED <<retry_pc, error_str, retry_ret, retry_err>>
            ELSE /\ retry_pc' = "raised"
                 /\ error_str' = e
                 /\ retry_err' = RetriesExhaustedText(max_retries, e)
                 /\ UNCHANGED <<attempt, wait_time, sleeps, retry_ret, slept>>
       ELSE /\ retry_pc' = "raised"
            /\ error_str' = e
            /\ retry_err' = e
            /\ UNCHANGED <<attempt, wait_time, sleeps, retry_ret, slept>>

\* one pass of the for loop, lines 105-131
InvokeAttempt ==
    /\ retry_pc = "loop"
    /\ attempt <= max_retries
    /\ \/ \E msg \in RunnerReplies : AttemptReturns(msg)
       \/ \E e \in ProviderErrors : AttemptRaises(e)
    /\ UNCHANGED <<chat_vars, alias_vars, cfg_vars, pipe_vars, mode, retry_messages, max_retries, run_vars, sup_vars>>

\* line 133: the for loop ended without returning (range(max_retries + 1) empty)
RetryLoopEnd ==
    /\ retry_pc = "loop"
    /\ attempt > max_retries
    /\ retry_pc' = "raised"
    /\ retry_err' = LoopEndText
    /\ UNCHANGED <<chat_vars, alias_vars, obs_vars, cfg_vars, pipe_vars, mode, varied, retry_messages, max_retries, attempt,
                   wait_time, sleeps, outcomes, error_str, retry_ret, run_vars, sup_vars>>

\* the frame is gone once the caller has taken its result
LeaveInvokeWithRetry ==
    /\ retry_pc' = "idle"
    /\ retry_messages' = <<>>
    /\ retry_ret' = NoMsg
    /\ retry_err' = <<>>
    /\ sleeps' = <<>>
    /\ outcomes' = <<>>
    /\ error_str' = <<>>
    /\ attempt' = 0
    /\ wait_time' = 0
    /\ UNCHANGED max_retries

(***************************************************************************)
(* Agent configuration (agent_config.py, tools.py): the snapshot a runner  *)
(* takes at construction.                                                  *)
(***************************************************************************)
RegisteredAgents == {"research", "projektleiter", "architekt"}
\* (variant: the registry key is used where the configured name belongs)
DisplayName_registry_key(name) == name

\* agent_config.py line 111: config.name of the agent
DisplayName(name) ==
    CASE name = "research" -> "Research Agent"
      [] name = "projektleiter" -> "Projektleiter"
      [] name = "architekt" -> "Solution Architekt"
      [] OTHER -> name
SystemPrompt(name) == <<"system prompt of ", name>>

\* tools.py lines 310-317: the names of TOOL_REGISTRY
TOOL_REGISTRY ==
    {"query_knowledge_base", "list_projects", "web_search", "get_weather",
     "calculate_sum", "save_markdown"}
\* the tools lists a configuration file may give an agent: any names at all
ConfigToolNames == {"all", KnownTool, "web_search", DelegateTool, UnknownTool}
ConfigToolLists == SUBSET ConfigToolNames

\* (variant: the names of a configuration are bound without the registry)
get_tools_for_agent_unfiltered(name, config_tools) == config_tools \ {"all"}

\* tools.py lines 325-333 and 336-357: the names of the tools an agent gets
get_tools_for_agent(name, config_tools) ==
    IF "all" \in config_tools THEN TOOL_REGISTRY
    ELSE IF name = "supervisor" THEN {}
    ELSE config_tools \cap TOOL_REGISTRY

\* the configuration in force: the specialists have the knowledge base
ConfigTools(name) == IF name = "supervisor" THEN {} ELSE {KnownTool}
BoundTools(name) == get_tools_for_agent(name, ConfigTools(name))
UserQuery == <<"query">>

ConfiguredAgents == RegisteredAgents \cup {"supervisor"}
\* agent_config.py lines 23-32
AgentConfig(name, system_prompt, llm_provider, model, config_tools) ==
    [name |-> name, system_prompt |-> system_prompt, llm_provider |-> llm_provider,
     model |-> model, tools |-> config_tools]
\* what config/agents.yaml and roles/*.md may hold when they are loaded
ConfigFiles ==
    {[a \in ConfiguredAgents |->
         AgentConfig(DisplayName(a), SystemPrompt(a), "claude", "model-1", ConfigTools(a))],
     [a \in ConfiguredAgents |->
         AgentConfig(DisplayName(a), <<"new prompt of ", a>>, "claude", "model-1", {"all"})],
     [a \in ConfiguredAgents |->
         AgentConfig(DisplayName(a), SystemPrompt(a), "ollama", "model-2", {})]}
\* agent_config.py line 124: the snapshot loaded at import
ImportedConfig ==
    [a \in ConfiguredAgents |->
        AgentConfig(DisplayName(a), SystemPrompt(a), "claude", "model-1", ConfigTools(a))]

(***************************************************************************)
(* AgentRunner.run                                                         *)
(***************************************************************************)
\* (variant: the answers of the delegate runs before are carried into the
\* history of the run)
EnterRun_carries_answers(name, query) ==
    /\ run_pc' = "await"
    /\ agent_name' = name
    /\ tools' = BoundTools(name)
    /\ messages' = <<SystemMessage(SystemPrompt(name)), HumanMessage(query)>>
                   \o [j \in 1..Len(agent_responses) |->
                         AIMessage(agent_responses[j][2], <<>>)]
    /\ iteration' = 0
    /\ response' = NoMsg
    /\ tc' = 0
    /\ invoked' = <<>>
    /\ run_ret' = <<>>
    /\ run_err' = <<>>
    /\ EnterInvokeWithRetry(messages', MAX_RETRIES)

\* lines 137-156: the history is seeded and the first provider request starts
EnterRun(name, query) ==
    /\ run_pc' = "await"
    /\ agent_name' = name
    /\ tools' = BoundTools(name)
    /\ messages' = <<SystemMessage(SystemPrompt(name)), HumanMessage(query)>>
    /\ iteration' = 0
    /\ response' = NoMsg
    /\ tc' = 0
    /\ invoked' = <<>>
    /\ run_ret' = <<>>
    /\ run_err' = <<>>
    /\ EnterInvokeWithRetry(messages', MAX_RETRIES)

\* (variant: the lookup in tools_by_name is skipped)
IsBound_any(bound, tool_name) == TRUE

\* (variant: the text of the tool's exception is left out of the result)
ToolResult_drops_error(bound, tool_name, tool_args) ==
    IF tool_name \in bound
    THEN IF ToolRaises(tool_name, tool_args)
         THEN <<"Error executing tool ", tool_name, ": ">>
         ELSE ToolText(tool_name, tool_args)
    ELSE <<"Unknown tool: ", tool_name>>

\* line 178
IsBound(bound, tool_name) == tool_name \in bound

\* lines 178-184 and 190: the text of the tool_result of one tool_call
ToolResult(bound, tool_name, tool_args) ==
    IF IsBound(bound, tool_name)
    THEN IF ToolRaises(tool_name, tool_args)
         THEN <<"Error executing tool ", tool_name, ": ">> \o ToolErrorText(tool_name, tool_args)
         ELSE ToolText(tool_name, tool_args)
    ELSE <<"Unknown tool: ", tool_name>>

\* (variant: every assistant message is taken to carry tool calls)
HasToolCalls_always(msg) == msg.role = "assistant"

\* line 169 (and 265)
HasToolCalls(msg) == msg.tool_calls # <<>>

\* (variant: the tool_result does not carry the id of its tool_call)
ToolCallId_missing(tool_call) == NoId

\* line 174 (and 279, 286)
ToolCallId(tool_call) == tool_call.id

\* (variant: only the seed and the latest assistant message are kept)
RunReceive_forgetful ==
    /\ run_pc = "await"
    /\ retry_pc = "returned"
    /\ response' = retry_ret
    /\ messages' = <<messages[1], messages[2], retry_ret>>
    /\ IF HasToolCalls(retry_ret)
       THEN /\ run_pc' = "dispatch"
            /\ tc' = 1
            /\ run_ret' = run_ret
       ELSE /\ run_pc' = "returned"
            /\ tc' = 0
            /\ run_ret' = retry_ret.content
    /\ LeaveInvokeWithRetry
    /\ UNCHANGED <<chat_vars, alias_vars, obs_vars, cfg_vars, pipe_vars, mode, varied, agent_name, tools, iteration, invoked, run_err, sup_vars>>

\* (variant: the tool calls of the last pass are not executed)
RunReceive_skips_last_dispatch ==
    /\ run_pc = "await"
    /\ retry_pc = "returned"
    /\ response' = retry_ret
    /\ messages' = Append(messages, retry_ret)
    /\ IF HasToolCalls(retry_ret) /\ iteration + 1 < max_iterations
       THEN /\ run_pc' = "dispatch"
            /\ tc' = 1
            /\ run_ret' = run_ret
       ELSE /\ run_pc' = "returned"
            /\ tc' = 0
            /\ run_ret' = retry_ret.content
    /\ LeaveInvokeWithRetry
    /\ UNCHANGED <<chat_vars, alias_vars, obs_vars, cfg_vars, pipe_vars, mode, varied, agent_name, tools, iteration, invoked, run_err, sup_vars>>

\* lines 156-169 and 193-196: _invoke_with_retry returned
RunReceive ==
    /\ run_pc = "await"
    /\ retry_pc = "returned"
    /\ response' = retry_ret
    /\ messages' = Append(messages, retry_ret)
    /\ IF HasToolCalls(retry_ret)
       THEN /\ run_pc' = "dispatch"
            /\ tc' = 1
            /\ run_ret' = run_ret
       ELSE /\ run_pc' = "returned"
            /\ tc' = 0
            /\ run_ret' = retry_ret.content
    /\ LeaveInvokeWithRetry
    /\ UNCHANGED <<chat_vars, alias_vars, obs_vars, cfg_vars, pipe_vars, mode, varied, agent_name, tools, iteration, invoked, run_err, sup_vars>>

\* (variant: run catches the failure and answers with the last content)
RunRaise_swallowed ==
    /\ run_pc = "await"
    /\ retry_pc = "raised"
    /\ run_pc' = "returned"
    /\ run_ret' = response.content \o <<" (incomplete)">>
    /\ LeaveInvokeWithRetry
    /\ UNCHANGED <<chat_vars, alias_vars, obs_vars, cfg_vars, pipe_vars, mode, varied, agent_name, tools, messages, iteration, response, tc,
                   invoked, run_err, sup_vars>>

\* _invoke_with_retry raised: nothing in run catches it
RunRaise ==
    /\ run_pc = "await"
    /\ retry_pc = "raised"
    /\ run_pc' = "raised"
    /\ run_err' = retry_err
    /\ LeaveInvokeWithRetry
    /\ UNCHANGED <<chat_vars, alias_vars, obs_vars, cfg_vars, pipe_vars, mode, varied, agent_name, tools, messages, iteration, response, tc,
                   invoked, run_ret, sup_vars>>

\* lines 171-192: one tool_call of response is executed and answered; after the
\* last one the outer loop goes on (line 152) or ends (lines 198-199)
RunDispatch ==
    /\ run_pc = "dispatch"
    /\ LET tool_call == response.tool_calls[tc]
           result == ToolResult(tools, tool_call.name, tool_call.args)
       IN  /\ messages' = Append(messages, ToolMessage(result, ToolCallId(tool_call)))
           /\ invoked' = IF IsBound(tools, tool_call.name)
                         THEN Append(invoked, <<tool_call.name, tool_call.args>>)
                         ELSE invoked
    /\ IF tc < Len(response.tool_calls)
       THEN /\ tc' = tc + 1
            /\ UNCHANGED <<run_pc, iteration, run_ret, retry_vars>>
       ELSE /\ tc' = 0
            /\ IF iteration + 1 < max_iterations
               THEN /\ iteration' = iteration + 1
                    /\ run_pc' = "await"
                    /\ run_ret' = run_ret
                    /\ EnterInvokeWithRetry(messages', MAX_RETRIES)
               ELSE /\ run_pc' = "returned"
                    /\ run_ret' = response.content
                    /\ UNCHANGED <<iteration, retry_vars>>
    /\ UNCHANGED <<chat_vars, alias_vars, obs_vars, cfg_vars, pipe_vars, mode, varied, agent_name, tools, response, run_err, sup_vars>>

(***************************************************************************)
(* Orchestrator.run                                                        *)
(***************************************************************************)
UnregisteredAgent == "supervisor"
TaskFor(name) == <<"task for ", name>>
DelegateArgs(name) == [agent_name |-> name, task |-> TaskFor(name)]
\* a list costs one per delegation beyond the first and one per delegate run
\* it starts (a delegation to an unregistered name starts none)
DelegationsCost(tcs) ==
    (Len(tcs) - 1)
    + Cardinality({k \in 1..Len(tcs) : tcs[k].args.agent_name \in RegisteredAgents})
DelegationLists ==
    UNION {{[k \in 1..n |-> ToolCall(CallId(k), DelegateTool, DelegateArgs(f[k]))]
              : f \in [1..n -> RegisteredAgents \cup {UnregisteredAgent}]}
           : n \in 1..(MaxVaried + 1)}
\* the assistant messages the provider may return to the supervisor now
SupReplies ==
    LET content == <<"supervisor ">> \o ReplyContent(sup_iter + 1)
    IN  {AIMessage(content, <<>>)}
        \cup {AIMessage(content, tcs) : tcs \in
                {l \in DelegationLists : DelegationsCost(l) <= MaxVaried - varied}}

\* lines 251-260: the history is seeded and the first provider request starts
EnterOrchestratorRun(query) ==
    /\ sup_pc' = "await"
    /\ sup_messages' = <<SystemMessage(SystemPrompt("supervisor")), HumanMessage(query)>>
    /\ sup_iter' = 0
    /\ sup_response' = NoMsg
    /\ sup_tc' = 0
    /\ agent_responses' = <<>>
    /\ delegated' = <<>>
    /\ sup_ret' = <<>>
    /\ sup_err' = <<>>

\* the frame of a finished AgentRunner.run is dropped
DropRunFrame ==
    /\ run_pc' = "idle"
    /\ agent_name' = ""
    /\ tools' = {}
    /\ messages' = <<>>
    /\ iteration' = 0
    /\ response' = NoMsg
    /\ tc' = 0
    /\ invoked' = <<>>
    /\ run_ret' = <<>>
    /\ run_err' = <<>>

\* after the tool_call at sup_tc: the next tool_call (line 266), the next
\* iteration (line 260), or the end of the loop and the return (line 294)
SupAdvance ==
    IF sup_tc < Len(sup_response.tool_calls)
    THEN /\ sup_tc' = sup_tc + 1
         /\ sup_pc' = "dispatch"
         /\ UNCHANGED <<sup_iter, sup_ret>>
    ELSE /\ sup_tc' = 0
         /\ IF sup_iter + 1 < sup_max_iterations
            THEN /\ sup_iter' = sup_iter + 1
                 /\ sup_pc' = "await"
                 /\ sup_ret' = sup_ret
            ELSE /\ sup_pc' = "returned"
                 /\ sup_ret' = sup_response.content
                 /\ sup_iter' = sup_iter

\* lines 261-265 and 289-294: one provider request of the supervisor
SupInvoke ==
    /\ sup_pc = "await"
    /\ \/ \E msg \in SupReplies :
            /\ sup_response' = msg
            /\ sup_messages' = Append(sup_messages, msg)
            /\ varied' = varied + (IF msg.tool_calls = <<>> THEN 0
                                   ELSE DelegationsCost(msg.tool_calls))
            /\ IF HasToolCalls(msg)
               THEN /\ sup_pc' = "dispatch"
                    /\ sup_tc' = 1
                    /\ sup_ret' = sup_ret
               ELSE /\ sup_pc' = "returned"
                    /\ sup_tc' = 0
                    /\ sup_ret' = msg.content
            /\ sup_err' = sup_err
       \/ \E e \in ProviderErrors :
            /\ sup_pc' = "raised"
            /\ sup_err' = e
            /\ UNCHANGED <<varied, sup_response, sup_messages, sup_tc, sup_ret>>
    /\ UNCHANGED <<chat_vars, alias_vars, obs_vars, cfg_vars, pipe_vars, mode, retry_vars, run_vars, sup_iter, agent_responses, delegated>>

\* (variant: the delegate run is started and the supervisor goes on at once)
SupDelegate_concurrent ==
    /\ sup_pc = "dispatch"
    /\ LET tool_call == sup_response.tool_calls[sup_tc]
       IN  /\ tool_call.args.agent_name \in RegisteredAgents
           /\ EnterRun(tool_call.args.agent_name, tool_call.args.task)
           /\ delegated' = Append(delegated, tool_call.args.agent_name)
    /\ SupAdvance
    /\ UNCHANGED <<chat_vars, alias_vars, obs_vars, cfg_vars, pipe_vars, mode, varied, sup_messages, sup_response, agent_responses, sup_err>>

\* lines 267-272: a delegation to a registered agent starts that runner's run
SupDelegate ==
    /\ sup_pc = "dispatch"
    /\ LET tool_call == sup_response.tool_calls[sup_tc]
       IN  /\ tool_call.args.agent_name \in RegisteredAgents
           /\ EnterRun(tool_call.args.agent_name, tool_call.args.task)
           /\ delegated' = Append(delegated, tool_call.args.agent_name)
    /\ sup_pc' = "delegating"
    /\ UNCHANGED <<chat_vars, alias_vars, obs_vars, cfg_vars, pipe_vars, mode, varied, sup_messages, sup_iter, sup_response, sup_tc,
                   agent_responses, sup_ret, sup_err>>

\* line 278
FoldedText(display_name, result) == <<"[", display_name, "]: ">> \o result

\* lines 272-281: runner.run returned; its answer is folded into the history
SupFold ==
    /\ sup_pc = "delegating"
    /\ run_pc = "returned"
    /\ LET tool_call == sup_response.tool_calls[sup_tc]
           name == DisplayName(agent_name)
       IN  /\ agent_responses' = Append(agent_responses, <<name, run_ret>>)
           /\ sup_messages' = Append(sup_messages,
                                     ToolMessage(FoldedText(name, run_ret), ToolCallId(tool_call)))
    /\ DropRunFrame
    /\ SupAdvance
    /\ UNCHANGED <<chat_vars, alias_vars, obs_vars, cfg_vars, pipe_vars, mode, varied, retry_vars, sup_response, delegated, sup_err>>

\* line 272: runner.run raised; nothing in Orchestrator.run catches it
SupDelegateRaise ==
    /\ sup_pc = "delegating"
    /\ run_pc = "raised"
    /\ sup_pc' = "raised"
    /\ sup_err' = run_err
    /\ DropRunFrame
    /\ UNCHANGED <<chat_vars, alias_vars, obs_vars, cfg_vars, pipe_vars, mode, varied, retry_vars, sup_messages, sup_iter, sup_response, sup_tc,
                   agent_responses, delegated, sup_ret>>

\* (variant: the error text does not name the agent)
UnknownAgentText_nameless(name) == <<"Error: Unknown agent">>

\* line 285
UnknownAgentText(name) == <<"Error: Unknown agent '", name, "'">>

\* lines 282-288: the named agent is not in agent_runners
SupUnknownAgent ==
    /\ sup_pc = "dispatch"
    /\ LET tool_call == sup_response.tool_calls[sup_tc]
       IN  /\ tool_call.args.agent_name \notin RegisteredAgents
           /\ sup_messages' = Append(sup_messages,
                ToolMessage(UnknownAgentText(tool_call.args.agent_name),
                            ToolCallId(tool_call)))
    /\ SupAdvance
    /\ UNCHANGED <<chat_vars, alias_vars, obs_vars, cfg_vars, pipe_vars, mode, varied, retry_vars, run_vars, sup_response, agent_responses,
                   delegated, sup_err>>

(***************************************************************************)
(* Entry points.                                                           *)
(***************************************************************************)
\* _invoke_with_retry called on its own, with any max_retries
CallInvokeWithRetry ==
    /\ mode = "retry"
    /\ retry_pc = "idle"
    /\ retry_err = <<>>
    /\ \E mr \in -1..MaxRetriesArg : EnterInvokeWithRetry(<<HumanMessage(UserQuery)>>, mr)
    /\ UNCHANGED <<chat_vars, alias_vars, obs_vars, cfg_vars, pipe_vars, mode, varied, run_vars, sup_vars>>

\* the agents run_single_agent is called with
SingleAgents == {"research"}

\* run_single_agent, lines 310-311
RunSingleAgent ==
    /\ mode \in {"agent", "budget"}
    /\ run_pc = "idle"
    /\ \E name \in SingleAgents : EnterRun(name, UserQuery)
    /\ UNCHANGED <<chat_vars, alias_vars, obs_vars, cfg_vars, pipe_vars, mode, varied, sup_vars>>

\* run_single_agent for an agent whose tool list is empty (agents.py line 211
\* lets "supervisor" through, tools.py line 354 gives it no tools)
ToollessAgents == {"supervisor"}
RunToollessAgent ==
    /\ mode = "toolless"
    /\ run_pc = "idle"
    /\ \E name \in ToollessAgents : EnterRun(name, UserQuery)
    /\ UNCHANGED <<chat_vars, alias_vars, obs_vars, cfg_vars, pipe_vars, mode, varied, sup_vars>>

\* run_orchestrated, lines 324-325
RunOrchestrated ==
    /\ mode = "orchestrator"
    /\ sup_pc = "idle"
    /\ EnterOrchestratorRun(UserQuery)
    /\ UNCHANGED <<chat_vars, alias_vars, obs_vars, cfg_vars, pipe_vars, mode, varied, retry_vars, run_vars>>

(***************************************************************************)
(* The inputs of an alias resolution (markdown_processor.py lines 53-74,   *)
(* agents.py lines 36-69 and 196-207).                                     *)
(***************************************************************************)
\* the @words a text may carry: every alias in several letter cases, and
\* words that are no alias
MentionWords ==
    {c[1] : c \in Cased \ {<<"RATE_LIMIT", "rate_limit">>}}
    \cup {c[2] : c \in Cased \ {<<"RATE_LIMIT", "rate_limit">>}}
    \cup {"researcher", "x"}
\* the matches of @(\w+) in a query, in the order of the text (agents.py
\* line 51): none, one, or two of which one is no alias
MentionLists ==
    {<<>>} \cup {<<w>> : w \in MentionWords}
    \cup {<<v, w>> : v \in {"x", "XYZ"}, w \in {"arch", "PM"}}
    \cup {<<w, v>> : v \in {"x", "XYZ"}, w \in {"arch", "PM"}}
NoAgent == ""
\* the --agent option of ask: not given, or an agent
AgentOptions == {NoAgent, "architekt", "supervisor"}

InitFrames ==
    /\ varied = 0
    /\ retry_pc = "idle"
    /\ retry_messages = <<>>
    /\ max_retries = MAX_RETRIES
    /\ attempt = 0
    /\ wait_time = 0
    /\ sleeps = <<>>
    /\ outcomes = <<>>
    /\ error_str = <<>>
    /\ retry_ret = NoMsg
    /\ retry_err = <<>>
    /\ run_pc = "idle"
    /\ agent_name = ""
    /\ tools = {}
    /\ messages = <<>>
    /\ iteration = 0
    /\ response = NoMsg
    /\ tc = 0
    /\ invoked = <<>>
    /\ run_ret = <<>>
    /\ run_err = <<>>
    /\ sup_pc = "idle"
    /\ sup_messages = <<>>
    /\ sup_iter = 0
    /\ sup_response = NoMsg
    /\ sup_tc = 0
    /\ agent_responses = <<>>
    /\ delegated = <<>>
    /\ sup_ret = <<>>
    /\ sup_err = <<>>
    /\ pipe_pc = "idle"
    /\ original_content = <<>>
    /\ dry_run = FALSE
    /\ output_arg = ""
    /\ output_path = ""
    /\ context = <<>>
    /\ questions = <<>>
    /\ q_index = 0
    /\ answers = <<>>
    /\ agent_runs = <<>>
    /\ files = [input |-> <<>>, output |-> <<>>]
    /\ writes = <<>>
    /\ pipe_ret = <<>>
    /\ pipe_err = <<>>
    /\ earlier_runs = <<>>
    /\ earlier_writes = <<>>
    /\ invocations = 0
    /\ slept = 0
    /\ alias_pc = "given"
    /\ resolved = ""
    /\ chat_pc = "idle"
    /\ chat_history = <<>>
    /\ chat_agent = ""
    /\ cleaned_query = <<>>
    /\ chat_query = <<>>
    /\ turns = <<>>
    /\ IF mode = "alias"
       THEN /\ caller \in {"markdown", "ask", "chat"}
            /\ found_mentions \in MentionLists
            /\ agent_option \in AgentOptions
            /\ (caller = "markdown" => Len(found_mentions) <= 1)
            /\ (caller # "ask" => agent_option = NoAgent)
       ELSE /\ caller = ""
            /\ found_mentions = <<>>
            /\ agent_option = ""
    /\ AGENT_CONFIGS = 1
    /\ snapshots = <<ImportedConfig>>
    /\ sessions = <<>>
    /\ born = <<>>
    /\ used = <<>>

\* the retry policy alone and the single-agent run
Init == mode \in {"retry", "agent"} /\ InitFrames
Next ==
    \/ CallInvokeWithRetry
    \/ InvokeAttempt
    \/ RetryLoopEnd
    \/ RunSingleAgent
    \/ RunReceive
    \/ RunRaise
    \/ RunDispatch
Spec == Init /\ [][Next]_vars

\* the supervisor run with its delegate runs
InitOrch == mode = "orchestrator" /\ InitFrames
NextOrch ==
    \/ RunOrchestrated
    \/ SupInvoke
    \/ SupDelegate
    \/ SupFold
    \/ SupDelegateRaise
    \/ SupUnknownAgent
    \/ InvokeAttempt
    \/ RunReceive
    \/ RunRaise
    \/ RunDispatch
SpecOrch == InitOrch /\ [][NextOrch]_vars

\* the single-agent run of an agent without tools
InitToolless == mode = "toolless" /\ InitFrames
NextToolless ==
    \/ RunToollessAgent
    \/ InvokeAttempt
    \/ RunReceive
    \/ RunRaise
    \/ RunDispatch
SpecToolless == InitToolless /\ [][NextToolless]_vars

\* every entry point
InitAll == Init \/ InitOrch
NextAll ==
    \/ CallInvokeWithRetry
    \/ InvokeAttempt
    \/ RetryLoopEnd
    \/ RunSingleAgent
    \/ RunReceive
    \/ RunRaise
    \/ RunDispatch
    \/ RunOrchestrated
    \/ SupInvoke
    \/ SupDelegate
    \/ SupFold
    \/ SupDelegateRaise
    \/ SupUnknownAgent
SpecAll == InitAll /\ [][NextAll]_vars

(***************************************************************************)
(* markdown_processor.py: documents.  A document is its sequence of lines  *)
(* (content.split('\n')); a line is its leading whitespace and what the    *)
(* patterns of the module can tell of the rest.  Texts are sequences of    *)
(* tokens, a final question mark is a token of its own.                    *)
(***************************************************************************)
NoMention == "-"
Line(lead, kind, number, mention, text) ==
    [lead |-> lead, kind |-> kind, number |-> number, mention |-> mention, text |-> text]
\* kinds: "item"     number ". " ["@" mention " "] text   (QUESTION_PATTERN)
\*        "fragen"   "## Fragen"                          (QUESTIONS_SECTION_PATTERN)
\*        "heading"  "### " text
\*        "antwort"  "**Antwort:** " text
\*        "blank"    nothing but whitespace
\*        "text"     anything else
TextLine(text) == Line("", "text", 0, NoMention, text)
BlankLine == Line("", "blank", 0, NoMention, <<>>)
HeadingLine(text) == Line("", "heading", 0, NoMention, text)

\* line.strip()
Strip(line) == [line EXCEPT !.lead = ""]
\* not line.strip()
IsBlank(line) == line.kind = "blank"
\* QUESTION_PATTERN.match(line.strip()), line 21
MatchesQuestionPattern(line) == Strip(line).kind = "item"
\* QUESTIONS_SECTION_PATTERN.match(line.strip()), line 24
MatchesQuestionsSection(line) == Strip(line).kind = "fragen"
\* line.strip().startswith("**Antwort:**") or line.strip().startswith("###"), line 298
StartsOldAnswer(line) == Strip(line).kind \in {"antwort", "heading"}
\* line.startswith("   "), line 301
IsIndented(line) == line.lead = "   "
\* question_text.endswith('?'), line 119
EndsWithQuestionMark(text) == text # <<>> /\ text[Len(text)] = "?"

\* the characters of a line
LineText(line) ==
    (IF line.lead = "" THEN <<>> ELSE <<line.lead>>)
    \o CASE line.kind = "item" ->
                <<ToString(line.number), ". ">>
                \o (IF line.mention = NoMention THEN <<>> ELSE <<"@", line.mention, " ">>)
                \o line.text
         [] line.kind = "fragen" -> <<"## ">> \o line.text
         [] line.kind = "heading" -> <<"### ">> \o line.text
         [] line.kind = "antwort" -> <<"**Antwort:** ">> \o line.text
         [] line.kind = "blank" -> <<>>
         [] OTHER -> line.text
\* '\n'.join(lines)
RECURSIVE JoinLines(_)
JoinLines(lines) ==
    IF lines = <<>> THEN <<>>
    ELSE IF Len(lines) = 1 THEN LineText(lines[1])
    ELSE LineText(lines[1]) \o <<"\n">> \o JoinLines(Tail(lines))

SetMin(S) == CHOOSE i \in S : \A j \in S : i <= j
SetMax(S) == CHOOSE i \in S : \A j \in S : j <= i
\* (variant: the members of a set of positions, last first)
Ascending_reversed(S) ==
    [n \in 1..Cardinality(S) |-> CHOOSE i \in S : Cardinality({m \in S : m >= i}) = n]
\* the members of a set of positions, in ascending order
Ascending(S) ==
    [n \in 1..Cardinality(S) |-> CHOOSE i \in S : Cardinality({m \in S : m <= i}) = n]

\* '\n'.join(lines).strip(): blank lines at both ends and the leading
\* whitespace of the first line are dropped
JoinStripped(lines) ==
    LET N == {i \in 1..Len(lines) : ~IsBlank(lines[i])}
    IN  IF N = {} THEN <<>>
        ELSE JoinLines([i \in 1..(SetMax(N) - SetMin(N) + 1) |->
                          IF i = 1 THEN Strip(lines[SetMin(N)])
                          ELSE lines[SetMin(N) + i - 1]])

\* the lines a document is made of, and the documents given to the pipeline
\* (content.split('\n') has at least one line)
LineAlphabet ==
    {TextLine(<<"C">>),
     Line("", "fragen", 0, NoMention, <<"Fragen">>),
     Line("", "item", 1, "Arch", <<"A", "?">>),
     Line("", "item", 2, NoMention, <<"B", "?">>),
     Line("", "item", 1, NoMention, <<"step">>),
     Line("", "antwort", 0, NoMention, <<"old">>),
     Line("   ", "text", 0, NoMention, <<"more">>),
     BlankLine}
Documents == UNION {[1..n -> LineAlphabet] : n \in 1..MaxLines}

(***************************************************************************)
(* resolve_agent_alias and parse_markdown_questions                        *)
(***************************************************************************)
\* lines 27-31
AGENT_ALIASES ==
    [research |-> {"research", "res", "r"},
     projektleiter |-> {"projektleiter", "pm", "pl", "project"},
     architekt |-> {"architekt", "architect", "arch", "sa"}]

\* (variant: the mention is compared as it is written)
resolve_agent_alias_as_written(mention) ==
    IF mention = NoMention THEN "research"
    ELSE LET hits == {a \in DOMAIN AGENT_ALIASES : mention \in AGENT_ALIASES[a]}
         IN  IF hits = {} THEN "research" ELSE CHOOSE a \in hits : TRUE

\* lines 53-74
resolve_agent_alias(mention) ==
    IF mention = NoMention THEN "research"
    ELSE LET hits == {a \in DOMAIN AGENT_ALIASES : Lower(mention) \in AGENT_ALIASES[a]}
         IN  IF hits = {} THEN "research" ELSE CHOOSE a \in hits : TRUE

Question(number, agent, text, line_index, original_line) ==
    [number |-> number, agent |-> agent, text |-> text, line_index |-> line_index,
     original_line |-> original_line]

\* lines 97-102: the position of the "Fragen" header, 0 for None
QuestionsSectionStart(lines) ==
    LET F == {i \in 1..Len(lines) : MatchesQuestionsSection(lines[i])}
    IN  IF F = {} THEN 0 ELSE SetMin(F)

\* lines 105-120: the positions of the lines taken for questions
QuestionLines(lines) ==
    LET start == QuestionsSectionStart(lines)
    IN  {i \in (start + 1)..Len(lines) :
            /\ MatchesQuestionPattern(lines[i])
            /\ \/ start # 0
               \/ lines[i].mention # NoMention
               \/ EndsWithQuestionMark(lines[i].text)}

\* lines 108-133 (line_index counts from 0)
ParseQuestions(lines) ==
    LET at == Ascending(QuestionLines(lines))
    IN  [n \in 1..Len(at) |->
            Question(lines[at[n]].number, resolve_agent_alias(lines[at[n]].mention),
                     lines[at[n]].text, at[n] - 1, lines[at[n]])]

\* lines 106, 121-123 and 135-137
ParseContext(lines) ==
    LET start == QuestionsSectionStart(lines)
        context_end ==
            IF start # 0 THEN start
            ELSE IF QuestionLines(lines) = {} THEN Len(lines) + 1
            ELSE SetMin(QuestionLines(lines))
    IN  JoinStripped(SubSeq(lines, 1, context_end - 1))

(***************************************************************************)
(* write_answers_to_markdown                                               *)
(***************************************************************************)
Answer(question_number, question_line, question_text, answer_text) ==
    [question_number |-> question_number, question_line |-> question_line,
     question_text |-> question_text, answer_text |-> answer_text]

\* line 274: the keys of answer_map, and the answer stored under a key (of
\* two answers with one key the dict keeps the later)
AnswerKeys(given) == {Strip(given[n].question_line) : n \in 1..Len(given)}
AnswerFor(given, key) ==
    given[SetMax({n \in 1..Len(given) : Strip(given[n].question_line) = key})]

\* lines 301-304: from j on, over blank and indented lines
RECURSIVE SkipIndented(_, _)
SkipIndented(lines, j) ==
    IF j <= Len(lines) /\ (IsBlank(lines[j]) \/ IsIndented(lines[j]))
    THEN IF ~IsBlank(lines[j]) /\ MatchesQuestionPattern(lines[j])
         THEN j
         ELSE SkipIndented(lines, j + 1)
    ELSE j

\* lines 291-310: from j on, over what stands for an earlier answer
RECURSIVE SkipAnswerBlock(_, _)
SkipAnswerBlock(lines, j) ==
    IF j > Len(lines) THEN j
    ELSE IF ~IsBlank(lines[j]) /\ MatchesQuestionPattern(lines[j]) THEN j
    ELSE IF StartsOldAnswer(lines[j]) THEN SkipAnswerBlock(lines, SkipIndented(lines, j + 1))
    ELSE IF IsBlank(lines[j]) THEN SkipAnswerBlock(lines, j + 1)
    ELSE j

\* lines 279-322, from line i on
RECURSIVE RenderFrom(_, _, _)
RenderFrom(lines, given, i) ==
    IF i > Len(lines) THEN <<>>
    ELSE IF Strip(lines[i]) \in AnswerKeys(given)
    THEN LET answer == AnswerFor(given, Strip(lines[i]))
         IN  <<HeadingLine(answer.question_text), BlankLine,
               TextLine(answer.answer_text), BlankLine>>
             \o RenderFrom(lines, given, SkipAnswerBlock(lines, i + 1))
    ELSE <<lines[i]>> \o RenderFrom(lines, given, i + 1)

\* lines 259-324
write_answers_to_markdown(lines, given) == RenderFrom(lines, given, 1)

(***************************************************************************)
(* process_questions and process_markdown_file                             *)
(***************************************************************************)
\* what run_single_agent returns, and the texts of what it raises
AgentAnswers == {<<"yes">>, <<"no">>}
AgentFailures == {ErrAuth}

\* lines 156-157
RECURSIVE AnswerBlocks(_)
AnswerBlocks(given) ==
    IF given = <<>> THEN <<>>
    ELSE <<"\n", "### ">> \o given[1].question_text \o <<"\n">>
         \o given[1].answer_text \o <<"\n">> \o AnswerBlocks(Tail(given))

\* (variant: only the latest answer is passed on)
format_previous_answers_latest(given) ==
    IF given = <<>> THEN <<>>
    ELSE <<"Bisherige Fragen und Antworten:\n">>
         \o AnswerBlocks(<<given[Len(given)]>>)

\* lines 142-159
format_previous_answers(given) ==
    IF given = <<>> THEN <<>>
    ELSE <<"Bisherige Fragen und Antworten:\n">> \o AnswerBlocks(given)

\* lines 199-219
FullQuery(ctx, given, q) ==
    LET previous_answers_context == format_previous_answers(given)
    IN  IF previous_answers_context # <<>>
        THEN <<"Kontext:\n">> \o ctx \o <<"\n\n">> \o previous_answers_context
             \o <<"\n\nAktuelle Frage:\n">> \o q.text
             \o <<"\n\nBitte beantworte die Frage basierend auf dem Kontext und den bisherigen Antworten.">>
        ELSE <<"Kontext:\n">> \o ctx \o <<"\n\nFrage:\n">> \o q.text
             \o <<"\n\nBitte beantworte die Frage basierend auf dem gegebenen Kontext.">>

\* line 233
FailurePlaceholder(e) == <<"Fehler bei der Verarbeitung: ">> \o e

AgentRun(agent, query, end, text) ==
    [agent |-> agent, query |-> query, end |-> end, text |-> text]

\* how a run of run_single_agent can end: with an answer or with a failure.
\* The agent is a function of its name and prompt: a prompt that the run of
\* process_questions before this one has given to it ends as it did then.
AgentOutcomes(agent, query) ==
    LET known == {k \in 1..Len(earlier_runs) :
                     earlier_runs[k].agent = agent /\ earlier_runs[k].query = query}
    IN  IF known = {}
        THEN {[end |-> "returned", text |-> text] : text \in AgentAnswers}
             \cup {[end |-> "raised", text |-> e] : e \in AgentFailures}
        ELSE {[end |-> earlier_runs[k].end, text |-> earlier_runs[k].text] : k \in known}

\* (variant: the destination is passed on in a dry run too)
IncrementalPath_in_dry_run(path, out, dry) == IF out # "" THEN out ELSE path

\* lines 380 and 389: the output_path given to process_questions ("" for None)
IncrementalPath(path, out, dry) ==
    IF dry THEN "" ELSE IF out # "" THEN out ELSE path

\* process_markdown_file, lines 349-391, up to the first pass of the loop of
\* process_questions (line 193); without questions it returns at line 373
ProcessMarkdownFile ==
    /\ mode = "pipeline"
    /\ pipe_pc = "idle"
    /\ \E doc \in Documents : \E dry \in BOOLEAN : \E out \in {"", "output"} :
          /\ files' = [input |-> doc, output |-> <<>>]
          /\ original_content' = doc
          /\ dry_run' = dry
          /\ output_arg' = out
          /\ questions' = ParseQuestions(doc)
          /\ IF ParseQuestions(doc) = <<>>
             THEN /\ pipe_pc' = "returned"
                  /\ pipe_ret' = doc
                  /\ context' = <<>>
                  /\ output_path' = ""
                  /\ q_index' = 0
             ELSE /\ pipe_pc' = "ask"
                  /\ pipe_ret' = <<>>
                  /\ context' = ParseContext(doc)
                  /\ output_path' = IncrementalPath("input", out, dry)
                  /\ q_index' = 1
    /\ answers' = <<>>
    /\ agent_runs' = <<>>
    /\ writes' = <<>>
    /\ pipe_err' = <<>>
    /\ UNCHANGED <<chat_vars, alias_vars, obs_vars, cfg_vars, mode, varied, retry_vars, run_vars, sup_vars, earlier_runs, earlier_writes>>

\* (variant: a failure of the agent run leaves process_questions)
AskAgent_unguarded ==
    /\ pipe_pc = "ask"
    /\ LET q == questions[q_index]
           full_query == FullQuery(context, answers, q)
       IN  \E o \in AgentOutcomes(q.agent, full_query) :
              /\ agent_runs' = Append(agent_runs, AgentRun(q.agent, full_query, o.end, o.text))
              /\ IF o.end = "returned"
                 THEN /\ answers' = Append(answers, Answer(q.number, q.original_line, q.text, o.text))
                      /\ pipe_pc' = "persist"
                      /\ pipe_err' = pipe_err
                 ELSE /\ answers' = answers
                      /\ pipe_pc' = "raised"
                      /\ pipe_err' = o.text
    /\ UNCHANGED <<chat_vars, alias_vars, obs_vars, cfg_vars, mode, varied, retry_vars, run_vars, sup_vars, earlier_runs, earlier_writes,
                   original_content, dry_run, output_arg, output_path, context, questions, q_index,
                   files, writes, pipe_ret>>

\* lines 193-241: the prompt is built, the agent runs, its answer or the
\* placeholder for its failure is appended
AskAgent ==
    /\ pipe_pc = "ask"
    /\ LET q == questions[q_index]
           full_query == FullQuery(context, answers, q)
       IN  \E o \in AgentOutcomes(q.agent, full_query) :
              /\ agent_runs' = Append(agent_runs, AgentRun(q.agent, full_query, o.end, o.text))
              /\ answers' = Append(answers, Answer(q.number, q.original_line, q.text,
                                                   IF o.end = "returned" THEN o.text
                                                   ELSE FailurePlaceholder(o.text)))
    /\ pipe_pc' = "persist"
    /\ UNCHANGED <<chat_vars, alias_vars, obs_vars, cfg_vars, mode, varied, retry_vars, run_vars, sup_vars, earlier_runs, earlier_writes,
                   original_content, dry_run, output_arg, output_path, context, questions, q_index,
                   files, writes, pipe_ret, pipe_err>>

\* line 193 after a pass: the next question, or the end of the loop, the
\* return at line 256 and lines 393-404 of process_markdown_file
NextQuestion ==
    IF q_index < Len(questions)
    THEN /\ q_index' = q_index + 1
         /\ pipe_pc' = "ask"
         /\ pipe_ret' = pipe_ret
    ELSE /\ q_index' = q_index
         /\ pipe_pc' = "returned"
         /\ pipe_ret' = write_answers_to_markdown(original_content, answers)

WriteFailureText(path) == <<"cannot write ", path>>

\* (variant: the document is written once, after the last question)
Persist_deferred ==
    /\ pipe_pc = "persist"
    /\ IF output_path # "" /\ original_content # <<>> /\ q_index = Len(questions)
       THEN LET rendered == write_answers_to_markdown(original_content, answers)
            IN  /\ files' = [files EXCEPT ![output_path] = rendered]
                /\ writes' = Append(writes, [path |-> output_path, text |-> rendered])
                /\ pipe_err' = pipe_err
                /\ NextQuestion
       ELSE /\ UNCHANGED <<files, writes, pipe_err>>
            /\ NextQuestion
    /\ UNCHANGED <<chat_vars, alias_vars, obs_vars, cfg_vars, mode, varied, retry_vars, run_vars, sup_vars, earlier_runs, earlier_writes,
                   original_content, dry_run, output_arg, output_path, context, questions, answers, agent_runs>>

\* (variant: the document is rendered from what the destination holds)
Persist_from_file ==
    /\ pipe_pc = "persist"
    /\ IF output_path # "" /\ original_content # <<>>
       THEN LET rendered == write_answers_to_markdown(files[output_path], answers)
            IN  \/ /\ files' = [files EXCEPT ![output_path] = rendered]
                   /\ writes' = Append(writes, [path |-> output_path, text |-> rendered])
                   /\ pipe_err' = pipe_err
                   /\ NextQuestion
                \/ /\ files' \in {files, [files EXCEPT ![output_path] = <<>>]}
                   /\ writes' = writes
                   /\ pipe_pc' = "raised"
                   /\ pipe_err' = WriteFailureText(output_path)
                   /\ UNCHANGED <<q_index, pipe_ret>>
       ELSE /\ UNCHANGED <<files, writes, pipe_err>>
            /\ NextQuestion
    /\ UNCHANGED <<chat_vars, alias_vars, obs_vars, cfg_vars, mode, varied, retry_vars, run_vars, sup_vars, earlier_runs, earlier_writes,
                   original_content, dry_run, output_arg, output_path, context, questions, answers, agent_runs>>

\* (variant: a write_text that raises is caught and the loop goes on)
Persist_isolated ==
    /\ pipe_pc = "persist"
    /\ IF output_path # "" /\ original_content # <<>>
       THEN LET rendered == write_answers_to_markdown(original_content, answers)
            IN  \/ /\ files' = [files EXCEPT ![output_path] = rendered]
                   /\ writes' = Append(writes, [path |-> output_path, text |-> rendered])
                   /\ pipe_err' = pipe_err
                   /\ NextQuestion
                \/ /\ files' \in {files, [files EXCEPT ![output_path] = <<>>]}
                   /\ writes' = writes
                   /\ pipe_err' = pipe_err
                   /\ NextQuestion
       ELSE /\ UNCHANGED <<files, writes, pipe_err>>
            /\ NextQuestion
    /\ UNCHANGED <<chat_vars, alias_vars, obs_vars, cfg_vars, mode, varied, retry_vars, run_vars, sup_vars, earlier_runs, earlier_writes,
                   original_content, dry_run, output_arg, output_path, context, questions, answers, agent_runs>>

\* lines 243-248: the document is rendered and written; a write_text that
\* raises leaves the file as it was or emptied, and leaves process_questions
Persist ==
    /\ pipe_pc = "persist"
    /\ IF output_path # "" /\ original_content # <<>>
       THEN LET rendered == write_answers_to_markdown(original_content, answers)
            IN  \/ /\ files' = [files EXCEPT ![output_path] = rendered]
                   /\ writes' = Append(writes, [path |-> output_path, text |-> rendered])
                   /\ pipe_err' = pipe_err
                   /\ NextQuestion
                \/ /\ files' \in {files, [files EXCEPT ![output_path] = <<>>]}
                   /\ writes' = writes
                   /\ pipe_pc' = "raised"
                   /\ pipe_err' = WriteFailureText(output_path)
                   /\ UNCHANGED <<q_index, pipe_ret>>
       ELSE /\ UNCHANGED <<files, writes, pipe_err>>
            /\ NextQuestion
    /\ UNCHANGED <<chat_vars, alias_vars, obs_vars, cfg_vars, mode, varied, retry_vars, run_vars, sup_vars, earlier_runs, earlier_writes,
                   original_content, dry_run, output_arg, output_path, context, questions, answers, agent_runs>>

\* the process dies during process_questions: while the agent runs, between
\* two statements, or inside output_path.write_text (line 246), which opens
\* the file for writing, so truncates it, before it writes the new text
Crash ==
    /\ pipe_pc \in {"ask", "persist"}
    /\ pipe_pc' = "crashed"
    /\ IF pipe_pc = "persist" /\ output_path # "" /\ original_content # <<>>
       THEN files' \in {files, [files EXCEPT ![output_path] = <<>>]}
       ELSE files' = files
    /\ UNCHANGED <<chat_vars, alias_vars, obs_vars, cfg_vars, mode, varied, retry_vars, run_vars, sup_vars, earlier_runs, earlier_writes,
                   original_content, dry_run, output_arg, output_path, context, questions, q_index, answers, agent_runs, writes,
                   pipe_ret, pipe_err>>

\* process_questions is run once more with the context, the questions and the
\* original document of the run that has returned (lines 162-193)
ProcessQuestionsAgain ==
    /\ pipe_pc = "returned"
    /\ questions # <<>>
    /\ earlier_runs = <<>>
    /\ earlier_runs' = agent_runs
    /\ earlier_writes' = writes
    /\ answers' = <<>>
    /\ agent_runs' = <<>>
    /\ writes' = <<>>
    /\ q_index' = 1
    /\ pipe_pc' = "ask"
    /\ pipe_ret' = <<>>
    /\ UNCHANGED <<chat_vars, alias_vars, obs_vars, cfg_vars, mode, varied, retry_vars, run_vars, sup_vars, original_content,
                   dry_run, output_arg, output_path, context, questions, files, pipe_err>>

\* one run of a single agent whose provider keeps to the plain script (one
\* successful call of the bound tool per turn, or the final answer) and may
\* fail at every request; the totals of the run are observed
InitBudget == mode = "budget" /\ InitFrames
NextBudget ==
    \/ RunSingleAgent
    \/ InvokeAttempt
    \/ RunReceive
    \/ RunRaise
    \/ RunDispatch
SpecBudget == InitBudget /\ [][NextBudget]_vars

\* the question pipeline
InitPipeline == mode = "pipeline" /\ InitFrames
NextPipeline ==
    \/ ProcessMarkdownFile
    \/ AskAgent
    \/ Persist
    \/ Crash
SpecPipeline == InitPipeline /\ [][NextPipeline]_vars

\* the question pipeline, and process_questions run a second time
NextRerun ==
    \/ ProcessMarkdownFile
    \/ AskAgent
    \/ Persist
    \/ ProcessQuestionsAgain
SpecRerun == InitPipeline /\ [][NextRerun]_vars

(***************************************************************************)
(* agent_config.py: the module-level snapshot AGENT_CONFIGS and its        *)
(* reload; the sessions (AgentRunner, Orchestrator) built from it.         *)
(* Objects live in a heap: snapshots holds every dict _load_agent_configs  *)
(* has returned, AGENT_CONFIGS is the position of the one the global       *)
(* refers to, and a session's config is a reference into the heap.         *)
(***************************************************************************)
\* agent_config.py lines 127-132: a reference to the AgentConfig object
get_agent_config(name) == <<AGENT_CONFIGS, name>>
Deref(ref) == snapshots[ref[1]][ref[2]]
\* llm_factory.py lines 70-84
create_llm_from_config(config) ==
    [provider |-> config.llm_provider, model |-> config.model]

\* orchestrator.py lines 34-41
NewAgentRunner(name) ==
    [kind |-> "AgentRunner",
     agent_name |-> name,
     config |-> get_agent_config(name),
     llm |-> create_llm_from_config(Deref(get_agent_config(name))),
     tools |-> get_tools_for_agent(name, Deref(get_agent_config(name)).tools)]
\* orchestrator.py lines 208-218
NewOrchestrator ==
    [kind |-> "Orchestrator",
     supervisor_config |-> get_agent_config("supervisor"),
     supervisor_llm |-> create_llm_from_config(Deref(get_agent_config("supervisor"))),
     agent_runners |-> [a \in RegisteredAgents |-> NewAgentRunner(a)]]

\* what a run of a session works with: run reads self.config.system_prompt,
\* self.llm_with_tools and self.tools (orchestrator.py lines 138-148 and 107),
\* Orchestrator.run reads self.supervisor_config.system_prompt, the bound
\* supervisor and its runners (lines 252, 261, 270-272)
RunnerView(r) ==
    [system_prompt |-> Deref(r.config).system_prompt, llm |-> r.llm, tools |-> r.tools]
SessionView(s) ==
    IF s.kind = "AgentRunner" THEN [own |-> RunnerView(s)]
    ELSE [own |-> [system_prompt |-> Deref(s.supervisor_config).system_prompt,
                   llm |-> s.supervisor_llm, tools |-> {DelegateTool}],
          delegates |-> [a \in RegisteredAgents |-> RunnerView(s.agent_runners[a])]]

\* (variant: the reload fills the dict the global refers to)
reload_agent_configs_in_place ==
    /\ mode = "config"
    /\ Len(snapshots) + Len(sessions) < MaxObjects
    /\ \E loaded \in ConfigFiles :
          snapshots' = [snapshots EXCEPT ![AGENT_CONFIGS] = loaded]
    /\ UNCHANGED <<chat_vars, alias_vars, obs_vars, mode, varied, retry_vars, run_vars, sup_vars, pipe_vars,
                   AGENT_CONFIGS, sessions, born, used>>

\* agent_config.py lines 135-141: _load_agent_configs builds a new dict of new
\* AgentConfig objects from the files, and the global is bound to it
reload_agent_configs ==
    /\ mode = "config"
    /\ Len(snapshots) + Len(sessions) < MaxObjects
    /\ \E loaded \in ConfigFiles :
          /\ snapshots' = Append(snapshots, loaded)
          /\ AGENT_CONFIGS' = Len(snapshots) + 1
    /\ UNCHANGED <<chat_vars, alias_vars, obs_vars, mode, varied, retry_vars, run_vars, sup_vars, pipe_vars,
                   sessions, born, used>>

\* a session is constructed: AgentRunner(agent_name) (run_single_agent, line
\* 310) or Orchestrator() (run_orchestrated, line 324)
ConstructSession ==
    /\ mode = "config"
    /\ Len(snapshots) + Len(sessions) < MaxObjects
    /\ \E s \in {NewAgentRunner(a) : a \in SingleAgents \cup ToollessAgents} \cup {NewOrchestrator} :
          /\ sessions' = Append(sessions, s)
          /\ born' = Append(born, [at |-> AGENT_CONFIGS, view |-> SessionView(s)])
          /\ used' = Append(used, <<>>)
    /\ UNCHANGED <<chat_vars, alias_vars, obs_vars, mode, varied, retry_vars, run_vars, sup_vars, pipe_vars,
                   AGENT_CONFIGS, snapshots>>

\* a constructed session runs, for the first time or once more (what is
\* observed of an earlier run is dropped)
RunSession ==
    /\ mode = "config"
    /\ \E i \in 1..Len(sessions) :
          used' = [used EXCEPT ![i] = <<[at |-> AGENT_CONFIGS, view |-> SessionView(sessions[i])]>>]
    /\ UNCHANGED <<chat_vars, alias_vars, obs_vars, mode, varied, retry_vars, run_vars, sup_vars, pipe_vars,
                   AGENT_CONFIGS, snapshots, sessions, born>>

InitConfig == mode = "config" /\ InitFrames
NextConfig ==
    \/ reload_agent_configs
    \/ ConstructSession
    \/ RunSession
SpecConfig == InitConfig /\ [][NextConfig]_vars

(***************************************************************************)
(* Alias resolution: resolve_agent_alias (markdown_processor.py) and       *)
(* parse_agent_mention with its callers ask and chat (agents.py).          *)
(***************************************************************************)
\* agents.py lines 36-69: the agent of the first @word, or None
parse_agent_mention(found) ==
    IF found = <<>> THEN NoAgent
    ELSE LET mention == Lower(found[1])
             hits == {a \in DOMAIN AGENT_ALIASES : mention \in AGENT_ALIASES[a]}
         IN  IF hits = {} THEN NoAgent ELSE CHOOSE a \in hits : TRUE
\* agents.py lines 196-207: ask
AskAgentName(found, agent) ==
    IF parse_agent_mention(found) # NoAgent THEN parse_agent_mention(found)
    ELSE IF agent # NoAgent THEN agent
    ELSE "research"
\* agents.py lines 417-419: chat
ChatAgentName(found) ==
    IF parse_agent_mention(found) # NoAgent THEN parse_agent_mention(found)
    ELSE "research"

\* one resolution: by a question line of a document (the group of
\* QUESTION_PATTERN, at most one @word), by ask or by chat
ResolveMention ==
    /\ mode = "alias"
    /\ alias_pc = "given"
    /\ alias_pc' = "resolved"
    /\ resolved' =
          CASE caller = "markdown" ->
                 resolve_agent_alias(IF found_mentions = <<>> THEN NoMention
                                     ELSE found_mentions[1])
            [] caller = "ask" -> AskAgentName(found_mentions, agent_option)
            [] OTHER -> ChatAgentName(found_mentions)
    /\ UNCHANGED <<chat_vars, obs_vars, cfg_vars, pipe_vars, mode, varied, retry_vars, run_vars, sup_vars,
                   caller, found_mentions, agent_option>>

InitAlias == mode = "alias" /\ InitFrames
NextAlias == ResolveMention
SpecAlias == InitAlias /\ [][NextAlias]_vars

(***************************************************************************)
(* chat_mode (agents.py lines 362-448).  A line of input is a sequence of  *)
(* tokens; an @word is one token.  The agent of a turn is the environment: *)
(* AgentRunner(...).run(chat_query) returns a text or raises.              *)
(***************************************************************************)
\* the @word tokens of the inputs, each with its word (the group of @(\w+))
MentionTokens == {<<"@arch", "arch">>, <<"@PM", "PM">>, <<"@x", "x">>}
IsMentionToken(t) == \E m \in MentionTokens : m[1] = t
WordOf(t) == (CHOOSE m \in MentionTokens : m[1] = t)[2]
\* the matches of @(\w+) in a query, in the order of the text (line 51)
FoundIn(query) ==
    LET at == SelectSeq(query, IsMentionToken)
    IN  [i \in 1..Len(at) |-> WordOf(at[i])]
\* lines 58-66: every "@mention" is taken out of the query, in any letter
\* case, when the first @word is an alias; else the query stays as it is.
\* (No token of the inputs is the beginning of another one.)
CleanedQuery(query) ==
    IF parse_agent_mention(FoundIn(query)) = NoAgent THEN query
    ELSE LET mention == Lower(FoundIn(query)[1])
             Stays(t) == ~(IsMentionToken(t) /\ Lower(WordOf(t)) = mention)
         IN  SelectSeq(query, Stays)

\* str.capitalize() of an agent name
Capitalize(name) ==
    CASE name = "research" -> "Research"
      [] name = "projektleiter" -> "Projektleiter"
      [] name = "architekt" -> "Architekt"
      [] OTHER -> name

\* lines 337-339
RECURSIVE HistoryBlocks(_)
HistoryBlocks(history) ==
    IF history = <<>> THEN <<>>
    ELSE <<"\n", "User: ">> \o history[1][1]
         \o <<"\n", Capitalize(history[1][2]), ": ">> \o history[1][3] \o <<"\n">>
         \o HistoryBlocks(Tail(history))

\* (variant: only the latest turn is passed on)
format_chat_history_latest(history) ==
    IF history = <<>> THEN <<>>
    ELSE <<"Bisheriger Chat-Verlauf:\n">> \o HistoryBlocks(<<history[Len(history)]>>)

\* lines 323-340
format_chat_history(history) ==
    IF history = <<>> THEN <<>>
    ELSE <<"Bisheriger Chat-Verlauf:\n">> \o HistoryBlocks(history)

\* lines 421-428
ChatFullQuery(history, cleaned) ==
    LET ctx == format_chat_history(history)
    IN  IF ctx # <<>> THEN ctx \o <<"\n\nAktuelle Frage:\n">> \o cleaned
        ELSE cleaned

\* the lines typed, after strip(): commands, the empty line, queries
ChatQueries ==
    {<<"@arch", "design">>, <<"@x", "why">>, <<"@PM">>}
ChatInputs ==
    {<<"exit">>, <<"EXIT">>, <<"clear">>, <<"help">>, <<>>} \cup ChatQueries

\* what the observer records of one pass of the while loop
Turn(input, did, agent, question, query, end, answer) ==
    [input |-> input, did |-> did, agent |-> agent, question |-> question,
     query |-> query, end |-> end, answer |-> answer]
Command(input, did) == Turn(input, did, "", <<>>, <<>>, "", <<>>)

\* lines 378-387: chat_mode is entered
ChatStart ==
    /\ mode = "chat"
    /\ chat_pc = "idle"
    /\ chat_pc' = "input"
    /\ chat_history' = <<>>
    /\ UNCHANGED <<chat_agent, cleaned_query, chat_query, turns, alias_vars, obs_vars, cfg_vars,
                   pipe_vars, mode, varied, retry_vars, run_vars, sup_vars>>

\* lines 389-434: a line is read; a command is obeyed, an empty line is
\* skipped, for a query the agent is resolved and started
ChatRead ==
    /\ chat_pc = "input"
    /\ Len(turns) < MaxTurns
    /\ \E user_input \in ChatInputs :
          CASE LowerText(user_input) = <<"exit">> ->
                 /\ chat_pc' = "ended"
                 /\ turns' = Append(turns, Command(user_input, "exit"))
                 /\ UNCHANGED <<chat_history, chat_agent, cleaned_query, chat_query>>
            [] LowerText(user_input) = <<"clear">> ->
                 /\ chat_history' = <<>>
                 /\ turns' = Append(turns, Command(user_input, "clear"))
                 /\ UNCHANGED <<chat_pc, chat_agent, cleaned_query, chat_query>>
            [] LowerText(user_input) = <<"help">> ->
                 /\ turns' = Append(turns, Command(user_input, "help"))
                 /\ UNCHANGED <<chat_pc, chat_history, chat_agent, cleaned_query, chat_query>>
            [] user_input = <<>> ->
                 /\ turns' = Append(turns, Command(user_input, "skip"))
                 /\ UNCHANGED <<chat_pc, chat_history, chat_agent, cleaned_query, chat_query>>
            [] OTHER ->
                 /\ chat_agent' = ChatAgentName(FoundIn(user_input))
                 /\ cleaned_query' = CleanedQuery(user_input)
                 /\ chat_query' = ChatFullQuery(chat_history, cleaned_query')
                 /\ chat_pc' = "running"
                 /\ turns' = Append(turns, Turn(user_input, "run", chat_agent', cleaned_query',
                                                chat_query', "running", <<>>))
                 /\ UNCHANGED chat_history
    /\ UNCHANGED <<alias_vars, obs_vars, cfg_vars, pipe_vars, mode, varied, retry_vars, run_vars, sup_vars>>

\* (variant: a run that raises is recorded with its error text)
ChatAgentEnds_records_failure ==
    /\ chat_pc = "running"
    /\ \/ \E text \in AgentAnswers :
            /\ chat_history' = Append(chat_history, <<cleaned_query, chat_agent, text>>)
            /\ turns' = [turns EXCEPT ![Len(turns)].end = "returned",
                                      ![Len(turns)].answer = text]
       \/ \E e \in AgentFailures :
            /\ chat_history' = Append(chat_history, <<cleaned_query, chat_agent, e>>)
            /\ turns' = [turns EXCEPT ![Len(turns)].end = "raised",
                                      ![Len(turns)].answer = e]
    /\ chat_pc' = "input"
    /\ chat_agent' = ""
    /\ cleaned_query' = <<>>
    /\ chat_query' = <<>>
    /\ UNCHANGED <<alias_vars, obs_vars, cfg_vars, pipe_vars, mode, varied, retry_vars, run_vars, sup_vars>>

\* lines 431-448: the run returns and the turn is appended to the history,
\* or it raises, the error is printed and the loop goes on
ChatAgentEnds ==
    /\ chat_pc = "running"
    /\ \/ \E text \in AgentAnswers :
            /\ chat_history' = Append(chat_history, <<cleaned_query, chat_agent, text>>)
            /\ turns' = [turns EXCEPT ![Len(turns)].end = "returned",
                                      ![Len(turns)].answer = text]
       \/ \E e \in AgentFailures :
            /\ chat_history' = chat_history
            /\ turns' = [turns EXCEPT ![Len(turns)].end = "raised",
                                      ![Len(turns)].answer = e]
    /\ chat_pc' = "input"
    /\ chat_agent' = ""
    /\ cleaned_query' = <<>>
    /\ chat_query' = <<>>
    /\ UNCHANGED <<alias_vars, obs_vars, cfg_vars, pipe_vars, mode, varied, retry_vars, run_vars, sup_vars>>

\* lines 390-394: Ctrl+C or the end of the input while a line is read ends
\* the loop; a KeyboardInterrupt while the agent runs is no Exception and
\* leaves chat_mode
ChatInterrupt ==
    /\ chat_pc \in {"input", "running"}
    /\ chat_pc' = IF chat_pc = "input" THEN "ended" ELSE "interrupted"
    /\ turns' = IF chat_pc = "input" THEN turns
                ELSE [turns EXCEPT ![Len(turns)].end = "interrupted"]
    /\ UNCHANGED <<chat_history, chat_agent, cleaned_query, chat_query, alias_vars, obs_vars,
                   cfg_vars, pipe_vars, mode, varied, retry_vars, run_vars, sup_vars>>

InitChat == mode = "chat" /\ InitFrames
NextChat ==
    \/ ChatStart
    \/ ChatRead
    \/ ChatAgentEnds
    \/ ChatInterrupt
SpecChat == InitChat /\ [][NextChat]_vars

(***************************************************************************)
(* Properties.                                                             *)
(***************************************************************************)
AssistantAt(h) == {i \in 1..Len(h) : h[i].role = "assistant"}
Last(h) == h[Len(h)]
AllToolBearing(h) == \A i \in AssistantAt(h) : h[i].tool_calls # <<>>

\* C1: AgentRunner.run makes at most 10 provider requests (retries not
\* counted), whatever the assistant messages are; when all 10 assistant
\* messages carry tool invocations the run does not raise: it executes the
\* tool calls of the 10th and returns the content of the 10th message.
C1_IterationCeiling ==
    LET n == Cardinality(AssistantAt(messages))
    IN  /\ iteration < 10
        /\ n <= 10
        /\ (run_pc = "await" => n = iteration)
        /\ (run_pc \in {"dispatch", "returned"} => n = iteration + 1)
        /\ (n = 10 /\ AllToolBearing(messages)) =>
              /\ run_pc \in {"dispatch", "returned"}
              /\ retry_pc = "idle"
              /\ run_err = <<>>
              /\ (run_pc = "returned" =>
                    /\ run_ret = ReplyContent(10)
                    /\ run_ret = response.content
                    /\ Last(messages).role = "tool_result")
C1_Witness ==
    /\ run_pc = "returned"
    /\ Cardinality(AssistantAt(messages)) = 10
    /\ AllToolBearing(messages)
    /\ run_ret = ReplyContent(10)

\* C2: the first assistant message without tool invocations ends
\* AgentRunner.run: it is the last message of the history, its content is
\* the returned answer, and no provider request is in progress or follows.
C2_PlainAnswerEndsRun ==
    \A i \in AssistantAt(messages) :
        messages[i].tool_calls = <<>> =>
            /\ i = Len(messages)
            /\ run_pc = "returned"
            /\ run_ret = messages[i].content
            /\ run_err = <<>>
            /\ retry_pc = "idle"
            /\ outcomes = <<>>
            /\ Len(invoked) <= Cardinality({j \in 1..i : messages[j].role = "tool_result"})
C2_Witness ==
    /\ run_pc = "returned"
    /\ iteration = 2
    /\ Last(messages).role = "assistant"
    /\ Last(messages).tool_calls = <<>>
    /\ Len(invoked) = 2

\* every assistant message at i with tool calls t is followed by exactly
\* Len(t) tool_results, the k-th carrying the id of t[k] and no other carrying
\* it, and every tool_result lies in such a block
WellAnswered(h) ==
    /\ \A i \in AssistantAt(h) :
          LET t == h[i].tool_calls
          IN  /\ i + Len(t) <= Len(h)
              /\ \A k \in 1..Len(t) :
                    /\ h[i + k].role = "tool_result"
                    /\ h[i + k].tool_call_id = t[k].id
                    /\ \A m \in 1..Len(t) : h[i + m].tool_call_id = t[k].id => m = k
              /\ (i + Len(t) < Len(h) => h[i + Len(t) + 1].role # "tool_result")
    /\ \A j \in 1..Len(h) :
          h[j].role = "tool_result" =>
              \E i \in AssistantAt(h) : i < j /\ j <= i + Len(h[i].tool_calls)

\* C3: whenever AgentRunner.run or Orchestrator.run sends its history to the
\* provider, every tool invocation of every assistant message in it is
\* answered by exactly one tool_result with its id, the tool_results follow
\* their assistant message directly and in invocation order, and every
\* tool_result answers an invocation of the assistant message before it.
C3_HistoryAnswered ==
    /\ (run_pc = "await" => WellAnswered(messages))
    /\ (sup_pc = "await" => WellAnswered(sup_messages))
C3_Witness ==
    /\ sup_pc = "delegating"
    /\ Len(sup_messages) >= 5
    /\ run_pc = "await"
    /\ retry_pc = "loop"
    /\ iteration = 1
    /\ Len(messages) = 4

EndsWith(text, suffix) ==
    /\ Len(suffix) <= Len(text)
    /\ SubSeq(text, Len(text) - Len(suffix) + 1, Len(text)) = suffix
\* the texts a failed provider request leaves run with
ProviderFailureTexts ==
    {e \in ProviderErrors : ErrorKind(e) = "error"}
    \cup {RetriesExhaustedText(3, e) : e \in {x \in ProviderErrors : ErrorKind(x) = "rate_limit"}}
\* the tool call k of the assistant message at i is one a bound tool fails on
FailingCall(i, k) ==
    /\ messages[i].tool_calls[k].name \in tools
    /\ ToolRaises(messages[i].tool_calls[k].name, messages[i].tool_calls[k].args)
HasFailingCall(i) == \E k \in 1..Len(messages[i].tool_calls) : FailingCall(i, k)
\* the tool calls of the message at i have all been answered, and nothing since
JustAnswered(i) == i + Len(messages[i].tool_calls) = Len(messages)

C4_ErrorCaptured ==
    /\ (run_pc = "raised" => run_err \in ProviderFailureTexts)
    /\ \A i \in AssistantAt(messages) :
          LET t == messages[i].tool_calls
          IN  HasFailingCall(i) =>
                \A k \in 1..Len(t) :
                    IF i + k <= Len(messages)
                    THEN /\ messages[i + k].role = "tool_result"
                         /\ messages[i + k].tool_call_id = t[k].id
                         /\ FailingCall(i, k) =>
                              /\ messages[i + k].content[1] = "Error executing tool "
                              /\ EndsWith(messages[i + k].content,
                                          ToolErrorText(t[k].name, t[k].args))
                    ELSE /\ run_pc = "dispatch"
                         /\ response = messages[i]
                         /\ tc <= k

\* C4 (as claimed): when a bound tool's invoke raises, the run does not fail,
\* the error text becomes the content of that invocation's tool_result, the
\* other invocations of the message are still dispatched, and once they are
\* answered the loop goes on with the next provider request.
C4_AsClaimed ==
    /\ C4_ErrorCaptured
    /\ \A i \in AssistantAt(messages) :
          (HasFailingCall(i) /\ JustAnswered(i)) =>
              \/ run_pc = "await" /\ retry_pc # "idle"
              \/ run_pc = "raised"

\* C4 (amended): as claimed, except that after the 10th assistant message
\* there is no next provider request: the run returns that message's content.
C4_ToolErrorIsData ==
    /\ C4_ErrorCaptured
    /\ \A i \in AssistantAt(messages) :
          (HasFailingCall(i) /\ JustAnswered(i)) =>
              \/ run_pc = "await" /\ retry_pc # "idle"
              \/ run_pc = "raised"
              \/ /\ run_pc = "returned"
                 /\ Cardinality(AssistantAt(messages)) = 10
                 /\ run_ret = messages[i].content
C4_Witness ==
    /\ run_pc = "await"
    /\ retry_pc = "loop"
    /\ Len(messages) = 5
    /\ Len(messages[3].tool_calls) = 2
    /\ FailingCall(3, 1)
    /\ messages[5].content = ToolText(KnownTool, GoodArgs)

\* the answered tool calls that name a bound tool
AnsweredBound ==
    {p \in AssistantAt(messages) \X (1..(MaxVaried + 1)) :
        /\ p[2] <= Len(messages[p[1]].tool_calls)
        /\ p[1] + p[2] <= Len(messages)
        /\ messages[p[1]].tool_calls[p[2]].name \in tools}

\* C5: a tool call naming a tool outside the agent's bound set invokes no
\* capability, is answered by a tool_result with its id that says the named
\* tool is unknown, and does not make the run raise.
C5_UnknownToolIsData ==
    /\ (run_pc = "raised" => run_err \in ProviderFailureTexts)
    /\ Len(invoked) = Cardinality(AnsweredBound)
    /\ \A n \in 1..Len(invoked) : invoked[n][1] \in tools
    /\ \A i \in AssistantAt(messages) :
          LET t == messages[i].tool_calls
          IN  \A k \in 1..Len(t) :
                t[k].name \notin tools =>
                    IF i + k <= Len(messages)
                    THEN /\ messages[i + k].role = "tool_result"
                         /\ messages[i + k].tool_call_id = t[k].id
                         /\ messages[i + k].content = <<"Unknown tool: ", t[k].name>>
                    ELSE /\ run_pc = "dispatch"
                         /\ response = messages[i]
                         /\ tc <= k
C5_Witness ==
    /\ run_pc = "await"
    /\ retry_pc = "loop"
    /\ Len(messages) = 5
    /\ messages[3].tool_calls[1].name = UnknownTool
    /\ messages[3].tool_calls[2].name = KnownTool
    /\ invoked = <<<<KnownTool, GoodArgs>>>>

AllRateLimited(o) == \A i \in 1..Len(o) : o[i].kind = "rate_limit"

\* C6: when the provider fails with a rate-limit signal on the first two
\* attempts and succeeds on the third, _invoke_with_retry returns the third
\* attempt's response after exactly 3 invocations and 2 sleeps, of 60 and 120.
C6_TwoFailuresThenSuccess ==
    (/\ Len(outcomes) >= 3
     /\ outcomes[1].kind = "rate_limit"
     /\ outcomes[2].kind = "rate_limit"
     /\ outcomes[3].kind = "ok") =>
        /\ Len(outcomes) = 3
        /\ retry_pc = "returned"
        /\ retry_ret = outcomes[3].reply
        /\ retry_err = <<>>
        /\ sleeps = <<60, 120>>
C6_Witness ==
    /\ retry_pc = "returned"
    /\ Len(outcomes) = 3
    /\ AllRateLimited(SubSeq(outcomes, 1, 2))
    /\ retry_ret = AIMessage(ReplyContent(1), <<>>)

\* C7: with max_retries = 3 and a provider that always fails with a
\* rate-limit signal, _invoke_with_retry invokes the provider exactly 4 times
\* with sleeps of 60, 120 and 240 between the invocations, does not sleep
\* after the 4th failure and raises an error saying retries are exhausted.
C7_AlwaysRateLimited ==
    (max_retries = 3 /\ outcomes # <<>> /\ AllRateLimited(outcomes)) =>
        /\ Len(outcomes) <= 4
        /\ sleeps = SubSeq(<<60, 120, 240>>, 1, Min(Len(outcomes), 3))
        /\ (Len(outcomes) < 4 => retry_pc = "loop")
        /\ (Len(outcomes) = 4 =>
              /\ retry_pc = "raised"
              /\ retry_err[1] = "Rate limit: Max retries ("
              /\ retry_err[2] = "3"
              /\ EndsWith(retry_err, error_str)
              /\ ErrorKind(error_str) = "rate_limit")
C7_Witness ==
    /\ max_retries = 3
    /\ retry_pc = "raised"
    /\ Len(outcomes) = 4
    /\ AllRateLimited(outcomes)
    /\ sleeps = <<60, 120, 240>>

\* a failure that is not a rate limit leaves the call at once, as it is,
\* without a sleep for it; and a call that has raised does nothing more
C8_OtherFailurePropagates ==
    (outcomes # <<>> /\ Last(outcomes).kind = "error") =>
        /\ retry_pc = "raised"
        /\ retry_err = error_str
        /\ ErrorKind(error_str) = "error"
        /\ AllRateLimited(SubSeq(outcomes, 1, Len(outcomes) - 1))
        /\ Len(sleeps) = Len(outcomes) - 1
C8_RaisedIsFinal ==
    retry_pc = "raised" => (outcomes' \in {outcomes, <<>>} /\ sleeps' \in {sleeps, <<>>})
\* the call goes on to another provider invocation after its latest failure
Retried == retry_pc = "loop" /\ attempt <= max_retries

\* C8 (as claimed): a provider failure is retried if and only if it is a
\* rate-limit failure; any other failure propagates at once, with no sleep
\* and no further provider invocation.  (Stated for the default max_retries,
\* where it fails already.)
C8_AsClaimed ==
    max_retries = MAX_RETRIES =>
        /\ (outcomes # <<>> /\ Last(outcomes).kind # "ok") =>
              (Retried <=> Last(outcomes).kind = "rate_limit")
        /\ C8_OtherFailurePropagates

\* C8 (amended): a provider failure is retried if and only if it is a
\* rate-limit failure and fewer than max_retries retries were made before it;
\* any other failure propagates at once, with no sleep and no further
\* provider invocation.
C8_RetryIffRateLimit ==
    /\ [](/\ (outcomes # <<>> /\ Last(outcomes).kind # "ok") =>
                (Retried <=> (Last(outcomes).kind = "rate_limit"
                              /\ Len(outcomes) - 1 < max_retries))
          /\ C8_OtherFailurePropagates)
    /\ [][C8_RaisedIsFinal]_vars
C8_Witness ==
    /\ retry_pc = "raised"
    /\ Len(outcomes) = 3
    /\ Last(outcomes).kind = "error"
    /\ sleeps = <<60, 120>>
    /\ retry_err = ErrAuth

\* C9: for every max_retries, the i-th sleep (i = 0, 1, ...) of one
\* _invoke_with_retry call lasts min(60 * 2^i, 300) seconds.
C9_BackoffSchedule ==
    /\ \A n \in 1..Len(sleeps) : sleeps[n] = Min(60 * 2^(n - 1), 300)
    /\ (retry_pc = "loop" => wait_time = Min(60 * 2^Len(sleeps), 300))
C9_Witness ==
    /\ max_retries = 5
    /\ Len(sleeps) = 5
    /\ sleeps[3] = 240
    /\ sleeps[4] = 300
    /\ sleeps[5] = 300

C10_OneOutcome ==
    /\ (run_pc = "returned" => run_ret # <<>> /\ run_err = <<>>)
    /\ (run_pc = "raised" => run_ret = <<>> /\ run_err \in ProviderFailureTexts)
    /\ (run_pc \notin {"returned", "raised"} => run_ret = <<>> /\ run_err = <<>>)
    /\ (sup_pc = "returned" => sup_ret # <<>> /\ sup_err = <<>>)
    /\ (sup_pc = "raised" =>
          sup_ret = <<>> /\ sup_err \in ProviderErrors \cup ProviderFailureTexts)
    /\ (sup_pc \notin {"returned", "raised"} => sup_ret = <<>> /\ sup_err = <<>>)
    /\ (retry_pc = "raised" /\ mode # "retry" => run_pc = "await" /\ ENABLED RunRaise)
    /\ (run_pc = "raised" /\ mode = "orchestrator" =>
          sup_pc = "delegating" /\ ENABLED SupDelegateRaise)
C10_FailurePropagates ==
    /\ (retry_pc = "raised" /\ run_pc = "await") =>
          (run_pc' = "raised" /\ run_err' = retry_err /\ run_ret' = <<>>)
    /\ (run_pc = "raised" /\ sup_pc = "delegating") =>
          (sup_pc' = "raised" /\ sup_err' = run_err /\ sup_ret' = <<>>)
    /\ (mode = "agent" /\ run_pc \in {"returned", "raised"}) => FALSE
    /\ (sup_pc \in {"returned", "raised"}) => FALSE

\* C10: a run of AgentRunner.run or Orchestrator.run ends either with an
\* answer or with one failure, never both; a provider failure that is not
\* retried, or the exhaustion of the retries, leaves run as that failure at
\* whatever iteration it happens, and then no answer is returned.
C10_AnswerOrFailure == []C10_OneOutcome /\ [][C10_FailurePropagates]_vars
C10_Witness ==
    /\ sup_pc = "raised"
    /\ sup_iter = 1
    /\ sup_err = RetriesExhaustedText(3, Err429)
    /\ sup_ret = <<>>

(***************************************************************************)
(* Properties of the delegation supervisor.                                *)
(***************************************************************************)
\* the tool calls of the history h: <<i, k>> is the k-th tool call of the
\* assistant message at i, and i + k is the position of its tool_result
Calls(h) == UNION {{<<i, k>> : k \in 1..Len(h[i].tool_calls)} : i \in AssistantAt(h)}
CallOf(h, c) == h[c[1]].tool_calls[c[2]]
SlotOf(c) == c[1] + c[2]
AgentOf(c) == CallOf(sup_messages, c).args.agent_name
\* Orchestrator.run is inside runner.run, or was when that raised
InDelegate == sup_pc = "delegating" \/ (sup_pc = "raised" /\ sup_tc > 0)
\* the delegate invocations naming a registered agent that have been taken
\* up: the answered ones and the one whose delegate run is in progress
Started ==
    {c \in Calls(sup_messages) :
        /\ AgentOf(c) \in RegisteredAgents
        /\ \/ SlotOf(c) <= Len(sup_messages)
           \/ InDelegate /\ SlotOf(c) = Len(sup_messages) + 1}
\* the invocation c is the n-th of those in S
Rank(S, c) == Cardinality({d \in S : SlotOf(d) <= SlotOf(c)})

\* C11 (as claimed): when the run of a registered delegate raises,
\* Orchestrator.run does not end with that failure: it appends a tool_result
\* carrying the id of that delegate invocation and goes on.
C11_AsClaimed ==
    [][(sup_pc = "delegating" /\ run_pc = "raised") =>
          /\ sup_pc' \in {"dispatch", "await", "returned"}
          /\ sup_err' = <<>>
          /\ Len(sup_messages') = Len(sup_messages) + 1
          /\ Last(sup_messages').role = "tool_result"
          /\ Last(sup_messages').tool_call_id = sup_response.tool_calls[sup_tc].id]_vars

\* C12: a delegate invocation naming an agent outside the registry is
\* answered by a tool_result that carries the invocation's id and whose text
\* contains the name, and starts no delegate run: the runs started are
\* exactly those of the invocations naming a registered agent.
C12_UnknownAgentIsData ==
    /\ \A c \in Calls(sup_messages) :
          (AgentOf(c) \notin RegisteredAgents /\ SlotOf(c) <= Len(sup_messages)) =>
              LET answer == sup_messages[SlotOf(c)]
              IN  /\ answer.role = "tool_result"
                  /\ answer.tool_call_id = CallOf(sup_messages, c).id
                  /\ Contains(answer.content, AgentOf(c))
                  /\ answer.content[1] = "Error: Unknown agent '"
    /\ Len(delegated) = Cardinality(Started)
    /\ \A n \in 1..Len(delegated) : delegated[n] \in RegisteredAgents
    /\ (run_pc # "idle" =>
          /\ sup_pc = "delegating"
          /\ sup_response.tool_calls[sup_tc].args.agent_name = agent_name
          /\ agent_name \in RegisteredAgents)
    /\ (sup_pc = "dispatch"
          /\ sup_response.tool_calls[sup_tc].args.agent_name \notin RegisteredAgents) =>
              run_pc = "idle" /\ retry_pc = "idle"
C12_Witness ==
    /\ sup_pc = "await"
    /\ Len(sup_messages) = 5
    /\ sup_messages[3].tool_calls[1].args.agent_name = UnregisteredAgent
    /\ sup_messages[3].tool_calls[2].args.agent_name = "research"
    /\ sup_messages[4].content = <<"Error: Unknown agent '", "supervisor", "'">>
    /\ sup_messages[4].tool_call_id = CallId(1)
    /\ delegated = <<"research">>

\* C13: the tool_result folded in for the n-th delegate run that returned
\* has exactly the content "[" display name "]: " answer, where the answer
\* is what that run returned and the display name is the configured name of
\* the delegate ("Solution Architekt" for the key "architekt"), and it
\* carries the id of the delegate invocation.
C13_FoldedResult ==
    LET S == Started
    IN  /\ Len(agent_responses) = Cardinality({c \in S : SlotOf(c) <= Len(sup_messages)})
        /\ \A c \in S :
              SlotOf(c) <= Len(sup_messages) =>
                  LET call == CallOf(sup_messages, c)
                      key == call.args.agent_name
                      n == Rank(S, c)
                      answer == agent_responses[n][2]
                      folded == sup_messages[SlotOf(c)]
                  IN  /\ delegated[n] = key
                      /\ agent_responses[n][1] = DisplayName(key)
                      /\ answer \in {ReplyContent(k) : k \in 1..10}
                      /\ folded.role = "tool_result"
                      /\ folded.tool_call_id = call.id
                      /\ folded.content = <<"[", DisplayName(key), "]: ">> \o answer
                      /\ (key = "architekt" => folded.content[2] = "Solution Architekt")
        /\ (sup_pc = "delegating" /\ run_pc = "returned") =>
              /\ run_ret \in {ReplyContent(k) : k \in 1..10}
              /\ ENABLED SupFold
C13_Witness ==
    /\ sup_pc = "await"
    /\ Len(sup_messages) = 4
    /\ sup_messages[3].tool_calls[1].args.agent_name = "architekt"
    /\ sup_messages[4].content = <<"[", "Solution Architekt", "]: ", "reply ", "2">>
    /\ sup_messages[4].tool_call_id = CallId(1)

\* C14: a delegate run is in progress only while Orchestrator.run handles
\* the delegate invocation it was started for; the invocations before that
\* one are all answered, the runs were started in the order of the
\* invocations, all but the one in progress have ended and been folded in,
\* and no supervisor provider request is open while a delegate runs.
C14_OneDelegateAtATime ==
    LET S == Started
    IN  /\ (run_pc # "idle" \/ retry_pc # "idle") => sup_pc = "delegating"
        /\ (sup_pc = "await" => run_pc = "idle" /\ retry_pc = "idle")
        /\ (sup_pc = "delegating" =>
              LET i == Len(sup_messages) + 1 - sup_tc
              IN  /\ run_pc # "idle"
                  /\ sup_tc >= 1
                  /\ <<i, sup_tc>> \in S
                  /\ sup_messages[i] = sup_response
                  /\ AgentOf(<<i, sup_tc>>) = agent_name
                  /\ messages[2] = HumanMessage(sup_response.tool_calls[sup_tc].args.task))
        /\ Len(delegated) = Cardinality(S)
        /\ \A c \in S : delegated[Rank(S, c)] = AgentOf(c)
        /\ Len(agent_responses) = Len(delegated) - (IF InDelegate THEN 1 ELSE 0)
        /\ \A c \in Calls(sup_messages) :
              SlotOf(c) <= Len(sup_messages) => sup_messages[SlotOf(c)].role = "tool_result"
C14_Witness ==
    /\ sup_pc = "delegating"
    /\ run_pc = "await"
    /\ delegated = <<"architekt", "research">>
    /\ Len(agent_responses) = 1
    /\ agent_name = "research"

\* the delegate invocations of the assistant message at i are all answered,
\* and nothing was appended since
SupJustAnswered(i) == i + Len(sup_messages[i].tool_calls) = Len(sup_messages)

C16_AsClaimed ==
    sup_pc = "raised" => sup_err \in ProviderFailureTexts

\* runs on the call stack
Depth ==
    (IF sup_pc \in {"await", "dispatch", "delegating"} THEN 1 ELSE 0)
    + (IF run_pc \in {"await", "dispatch"} THEN 1 ELSE 0)

\* no configuration gives a registered agent the delegate capability
NeverBoundToDelegate ==
    \A name \in RegisteredAgents : \A config_tools \in ConfigToolLists :
        DelegateTool \notin get_tools_for_agent(name, config_tools)

C18_AsClaimed ==
    (run_pc # "idle" /\ tools = {}) =>
        /\ run_pc # "dispatch"
        /\ iteration = 0
        /\ Cardinality(AssistantAt(messages)) <= 1
        /\ \A i \in 1..Len(messages) : messages[i].role # "tool_result"

(***************************************************************************)
(* Properties of the question pipeline.                                    *)
(***************************************************************************)
\* the text sub stands in s from position p on
OccursAt(s, sub, p) ==
    /\ p + Len(sub) - 1 <= Len(s)
    /\ SubSeq(s, p, p + Len(sub) - 1) = sub
Occurs(s, sub) == \E p \in 1..Len(s) : OccursAt(s, sub, p)
\* the texts of subs stand in s from position p on, one after the other in
\* the order of subs, without overlapping
RECURSIVE OccurInOrder(_, _, _)
OccurInOrder(s, subs, p) ==
    IF subs = <<>> THEN TRUE
    ELSE LET P == {i \in p..(Len(s) + 1) : OccursAt(s, subs[1], i)}
         IN  P # {} /\ OccurInOrder(s, Tail(subs), SetMin(P) + Len(subs[1]))
\* what an Answer's text can be
AnswerTexts == AgentAnswers \cup {FailurePlaceholder(e) : e \in AgentFailures}

\* C19: the prompt of the k-th agent run of process_questions contains the
\* document context, then the answer texts of the k-1 Answers appended
\* before it, in the order they were appended, then the text of the k-th
\* question; the prompt of the first run contains no answer text and no
\* previous-answers block.
C19_PromptCarriesAnswers ==
    /\ Len(agent_runs) = Len(answers)
    /\ \A k \in 1..Len(agent_runs) :
          LET full_query == agent_runs[k].query
              earlier == [j \in 1..(k - 1) |-> answers[j].answer_text]
          IN  /\ agent_runs[k].agent = questions[k].agent
              /\ OccurInOrder(full_query, <<context>> \o earlier \o <<questions[k].text>>, 2)
              /\ \A j \in 1..(k - 1) :
                    Occurs(full_query, <<"### ">> \o answers[j].question_text
                                       \o <<"\n">> \o answers[j].answer_text)
              /\ (k = 1 =>
                    /\ \A text \in AnswerTexts : ~Occurs(full_query, text)
                    /\ ~Contains(full_query, "### ")
                    /\ ~Contains(full_query, "Bisherige Fragen und Antworten:\n"))
C19_Witness ==
    /\ Len(agent_runs) = 3
    /\ answers[1].answer_text = <<"no">>
    /\ answers[2].answer_text = FailurePlaceholder(ErrAuth)
    /\ OccurInOrder(agent_runs[3].query,
                    <<context, <<"no">>, FailurePlaceholder(ErrAuth), questions[3].text>>, 2)
    /\ ~OccurInOrder(agent_runs[3].query, <<FailurePlaceholder(ErrAuth), <<"no">>>>, 2)

\* C20: an agent run that raises does not leave process_questions: the
\* Answer appended for its question is the failure placeholder; the later
\* questions are processed; at every moment the Answers are those of the
\* questions handled so far, one each and in question order, and when
\* process_questions returns there is one Answer for every question.
C20_FailureIsolated ==
    /\ Len(agent_runs) = Len(answers)
    /\ (pipe_pc = "ask" => Len(answers) = q_index - 1 /\ q_index <= Len(questions))
    /\ (pipe_pc = "persist" => Len(answers) = q_index)
    /\ (pipe_pc = "returned" => Len(answers) = Len(questions))
    /\ Len(answers) <= Len(questions)
    /\ \A i \in 1..Len(answers) :
          /\ answers[i].question_number = questions[i].number
          /\ answers[i].question_text = questions[i].text
          /\ answers[i].question_line = questions[i].original_line
          /\ (agent_runs[i].end = "raised" =>
                /\ answers[i].answer_text[1] = "Fehler bei der Verarbeitung: "
                /\ EndsWith(answers[i].answer_text, agent_runs[i].text))
          /\ (agent_runs[i].end = "returned" => answers[i].answer_text = agent_runs[i].text)
    /\ (pipe_pc = "raised" =>
          /\ pipe_err \notin AgentFailures
          /\ pipe_err = WriteFailureText(output_path)
          /\ Len(answers) = q_index)
C20_Witness ==
    /\ pipe_pc = "returned"
    /\ Len(questions) = 2
    /\ agent_runs[1].end = "raised"
    /\ agent_runs[2].end = "returned"
    /\ answers[1].answer_text = <<"Fehler bei der Verarbeitung: ", "Error code: ", "401", " Unauthorized">>
    /\ answers[2].answer_text = <<"yes">>
    /\ answers[1].question_number = questions[1].number
    /\ answers[2].question_number = questions[2].number

\* C21: with an output destination process_questions writes once per
\* question: the k-th write follows the appending of the k-th Answer and
\* precedes the agent run of question k+1, and what it writes is the original
\* document rendered with the first k Answers, failure placeholders included.
C21_OneWritePerQuestion ==
    output_path # "" =>
       /\ Len(writes) <= Len(answers)
       /\ Len(answers) <= Len(writes) + 1
       /\ Len(agent_runs) <= Len(writes) + 1
       /\ (pipe_pc = "ask" => Len(writes) = q_index - 1 /\ Len(agent_runs) = Len(writes))
       /\ (pipe_pc = "persist" => Len(writes) = q_index - 1 /\ Len(answers) = q_index)
       /\ (pipe_pc = "returned" => Len(writes) = Len(questions))
       /\ \A k \in 1..Len(writes) :
             /\ writes[k].path = output_path
             /\ writes[k].text =
                   write_answers_to_markdown(original_content, SubSeq(answers, 1, k))
C21_Witness ==
    /\ output_path # ""
    /\ pipe_pc = "ask"
    /\ q_index = 3
    /\ Len(writes) = 2
    /\ answers[1].answer_text = FailurePlaceholder(ErrAuth)
    /\ writes[1].text # writes[2].text
    /\ \E i \in 1..Len(writes[2].text) : writes[2].text[i] = TextLine(FailurePlaceholder(ErrAuth))

\* the lines of a document that carry the text of an Answer
HoldsAnswer(doc, answer) ==
    \E i \in 1..Len(doc) : doc[i] = TextLine(answer.answer_text)

\* C22: when the process has crashed during process_questions, the document
\* at the output destination holds the text of every Answer whose write had
\* been completed before.
C22_AsClaimed ==
    (pipe_pc = "crashed" /\ output_path # "") =>
        \A k \in 1..Len(writes) : HoldsAnswer(files[output_path], answers[k])

\* the lines of a document that are the text of an Answer, in document order
IsAnswerLine(line) == line \in {TextLine(text) : text \in AnswerTexts}
AnswerLines(doc) == SelectSeq(doc, IsAnswerLine)

\* C23: when the pipeline has completed, the persisted document holds, for
\* every question and in the order of the questions' lines, that question's
\* own answer text or failure placeholder, and no other answer text; two
\* questions with the same line text each have their own answer.
C23_AsClaimed ==
    (pipe_pc = "returned" /\ questions # <<>> /\ output_path # "") =>
        /\ files[output_path] = pipe_ret
        /\ AnswerLines(files[output_path]) =
              [k \in 1..Len(questions) |-> TextLine(answers[k].answer_text)]

\* the statement of C24 as written: the Answers are in ascending order of
\* their question numbers, and the Answer sequence only grows at its end
C24_AsClaimed ==
    /\ [](\A i \in 1..Len(answers) : \A j \in i..Len(answers) :
             answers[i].question_number <= answers[j].question_number)
    /\ [][Len(answers') >= Len(answers) /\ SubSeq(answers', 1, Len(answers)) = answers]_vars

\* C24 (amended): process_questions answers the questions in the order in
\* which they were parsed, which is the ascending order of their lines in
\* the document and not of their numbers, and the Answer sequence is
\* append-only: a step leaves it as it is or appends one Answer.
C24_ParsedOrderAppendOnly ==
    /\ [](/\ \A i \in 1..Len(questions) : \A j \in (i + 1)..Len(questions) :
                questions[i].line_index < questions[j].line_index
          /\ Len(answers) <= Len(questions)
          /\ \A i \in 1..Len(answers) :
                /\ answers[i].question_line = original_content[questions[i].line_index + 1]
                /\ answers[i].question_number = questions[i].number)
    /\ [][\/ answers' = answers
          \/ /\ Len(answers') = Len(answers) + 1
             /\ SubSeq(answers', 1, Len(answers)) = answers]_vars
C24_Witness ==
    /\ Len(answers) = 2
    /\ answers[1].question_number = 2
    /\ answers[2].question_number = 1
    /\ questions[1].line_index < questions[2].line_index

\* C25: a second run of process_questions on the same context, questions and
\* original document, with an agent that is a function of its prompt, gives
\* the agent the same prompts, writes the same documents in the same order
\* and leaves the same document at the destination as the first run.
C25_RerunSameOutput ==
    earlier_runs # <<>> =>
       /\ Len(agent_runs) <= Len(earlier_runs)
       /\ \A k \in 1..Len(agent_runs) : agent_runs[k] = earlier_runs[k]
       /\ Len(writes) <= Len(earlier_writes)
       /\ \A k \in 1..Len(writes) : writes[k] = earlier_writes[k]
       /\ (pipe_pc = "returned" =>
             /\ agent_runs = earlier_runs
             /\ writes = earlier_writes
             /\ (output_path # "" =>
                   /\ files[output_path] = earlier_writes[Len(earlier_writes)].text
                   /\ files[output_path] = pipe_ret))
C25_Witness ==
    /\ earlier_runs # <<>>
    /\ pipe_pc = "returned"
    /\ Len(writes) = 2
    /\ writes = earlier_writes
    /\ writes[1].text # writes[2].text
    /\ agent_runs[1].end = "raised"
    /\ agent_runs[2].end = "returned"
    /\ files[output_path] = writes[2].text

(***************************************************************************)
(* Properties of the configuration reload.                                 *)
(***************************************************************************)
\* the view of a session of the kind of s constructed from the dict d
ViewFrom(s, d) ==
    LET runner(a) == [system_prompt |-> d[a].system_prompt,
                      llm |-> create_llm_from_config(d[a]),
                      tools |-> get_tools_for_agent(a, d[a].tools)]
    IN  IF s.kind = "AgentRunner" THEN [own |-> runner(s.agent_name)]
        ELSE [own |-> [system_prompt |-> d["supervisor"].system_prompt,
                       llm |-> create_llm_from_config(d["supervisor"]),
                       tools |-> {DelegateTool}],
              delegates |-> [a \in RegisteredAgents |-> runner(a)]]

\* C26: reload_agent_configs binds the global to a new snapshot and changes
\* no field of an earlier one; the system prompt, model binding and tool set
\* of a constructed AgentRunner or Orchestrator (its delegate runners
\* included) stay what they were at construction, in every later run; a
\* session constructed after a reload is built from the reloaded snapshot.
C26_ReloadLeavesSessions ==
    /\ [](\A i \in 1..Len(sessions) :
             /\ SessionView(sessions[i]) = born[i].view
             /\ born[i].view = ViewFrom(sessions[i], snapshots[born[i].at])
             /\ \A k \in 1..Len(used[i]) : used[i][k].view = born[i].view)
    /\ [][/\ Len(snapshots') >= Len(snapshots)
          /\ SubSeq(snapshots', 1, Len(snapshots)) = snapshots
          /\ Len(sessions') >= Len(sessions)
          /\ SubSeq(sessions', 1, Len(sessions)) = sessions
          /\ (AGENT_CONFIGS' # AGENT_CONFIGS =>
                /\ AGENT_CONFIGS' = Len(snapshots) + 1
                /\ Len(snapshots') = Len(snapshots) + 1
                /\ sessions' = sessions)
          /\ (Len(sessions') > Len(sessions) =>
                born'[Len(sessions')].at = AGENT_CONFIGS)]_vars
C26_Witness ==
    /\ Len(sessions) = 2
    /\ sessions[1].kind = "Orchestrator"
    /\ sessions[2].kind = "Orchestrator"
    /\ born[1].at = 1
    /\ born[2].at = 2
    /\ AGENT_CONFIGS = 3
    /\ used[1] # <<>>
    /\ used[1][1].at = 3
    /\ used[1][1].view = born[1].view
    /\ born[1].view.own # born[2].view.own
    /\ born[1].view.delegates["research"] # born[2].view.delegates["research"]

(***************************************************************************)
(* Further properties of AgentRunner.run.                                  *)
(***************************************************************************)
\* C27: within one AgentRunner.run the history starts as the system message
\* and the user message and is append-only: a step leaves it as it is or
\* appends one assistant message or one tool_result; every provider request
\* of the run is given the whole history accumulated so far.
C27_HistoryAppendOnly ==
    /\ [](run_pc # "idle" =>
             /\ Len(messages) >= 2
             /\ messages[1] = SystemMessage(SystemPrompt(agent_name))
             /\ messages[2] = HumanMessage(UserQuery)
             /\ \A k \in 3..Len(messages) : messages[k].role \in {"assistant", "tool_result"}
             /\ (retry_pc \in {"loop", "returned", "raised"} => retry_messages = messages))
    /\ [][\/ messages' = messages
          \/ /\ run_pc = "idle"
             /\ Len(messages') = 2
          \/ /\ run_pc # "idle"
             /\ Len(messages') = Len(messages) + 1
             /\ SubSeq(messages', 1, Len(messages)) = messages
             /\ messages'[Len(messages')].role \in {"assistant", "tool_result"}]_vars
C27_Witness ==
    /\ mode = "agent"
    /\ run_pc = "await"
    /\ retry_pc = "loop"
    /\ attempt = 1
    /\ iteration = 2
    /\ Len(messages) >= 6
    /\ retry_messages = messages
    /\ messages[3].role = "assistant"
    /\ messages[4].role = "tool_result"

\* C28: one AgentRunner.run with the defaults makes at most 10 * (1 + 3)
\* provider invocations and sleeps at most 10 * (60 + 120 + 240) seconds in
\* all, whatever the provider does; within the run every call of
\* _invoke_with_retry makes at most 1 + 3 invocations.
C28_RunBudget ==
    /\ invocations <= 10 * (1 + 3)
    /\ slept <= 10 * (60 + 120 + 240)
    /\ Len(outcomes) <= 1 + 3
    /\ (run_pc # "idle" =>
          /\ invocations <= (iteration + 1) * (1 + 3)
          /\ slept <= (iteration + 1) * (60 + 120 + 240))
C28_Witness ==
    /\ run_pc = "returned"
    /\ iteration = 9
    /\ invocations = 40
    /\ slept = 4200

(***************************************************************************)
(* Properties of the alias resolution.                                     *)
(***************************************************************************)
\* the agents a word is an alias of, letter case aside
AgentsOf(word) == {a \in DOMAIN AGENT_ALIASES : Lower(word) \in AGENT_ALIASES[a]}
\* the mention that is resolved: the first @word found
Recognized == found_mentions # <<>> /\ AgentsOf(found_mentions[1]) # {}

\* the statement of C29 as written: an alias in any letter case resolves to
\* its agent, an absent or unrecognized mention to "research", and the
\* resolved name is one of research, projektleiter, architekt
C29_AsClaimed ==
    alias_pc = "resolved" =>
       /\ resolved \in {"research", "projektleiter", "architekt"}
       /\ (Recognized => resolved \in AgentsOf(found_mentions[1]))
       /\ (~Recognized => resolved = "research")

\* C29 (amended): the first @word of the text is resolved without regard to
\* letter case: an alias resolves to its agent's canonical name; when it is
\* absent or no alias, resolve_agent_alias and chat resolve to "research",
\* and ask to its --agent option if one was given, else to "research"; the
\* resolved name is research, projektleiter, architekt or that option.
C29_AliasResolution ==
    alias_pc = "resolved" =>
       /\ resolved \in {"research", "projektleiter", "architekt", agent_option}
       /\ resolved # NoAgent
       /\ (Recognized => resolved \in AgentsOf(found_mentions[1]))
       /\ (~Recognized =>
             resolved = IF caller = "ask" /\ agent_option # NoAgent
                        THEN agent_option ELSE "research")
       /\ \A a \in DOMAIN AGENT_ALIASES : \A b \in DOMAIN AGENT_ALIASES :
             a # b => AGENT_ALIASES[a] \cap AGENT_ALIASES[b] = {}
C29_Witness ==
    /\ alias_pc = "resolved"
    /\ caller = "markdown"
    /\ found_mentions = <<"aRcH">>
    /\ resolved = "architekt"

\* C30: in a dry run process_markdown_file writes nothing, at any step:
\* neither the input file nor an output file changes; without dry_run and
\* without an output path every write goes to the path of the input file.
C30_DryRunWritesNothing ==
    pipe_pc # "idle" =>
       /\ (dry_run =>
             /\ writes = <<>>
             /\ output_path = ""
             /\ files = [input |-> original_content, output |-> <<>>])
       /\ ((~dry_run /\ output_arg = "") =>
             /\ \A k \in 1..Len(writes) : writes[k].path = "input"
             /\ files.output = <<>>
             /\ (questions # <<>> => output_path = "input"))
C30_Witness ==
    /\ dry_run
    /\ output_arg = "output"
    /\ pipe_pc = "returned"
    /\ Len(answers) = 2
    /\ pipe_ret # original_content
    /\ files.input = original_content
    /\ files.output = <<>>

C33_InvocationsAndSleeps ==
    (retry_pc # "idle" /\ max_retries >= 0) =>
        /\ Len(outcomes) <= max_retries + 1
        /\ (retry_pc \in {"returned", "raised"} => Len(outcomes) >= 1)
        /\ \A i \in 1..(Len(outcomes) - 1) : outcomes[i].kind # "ok"
        /\ ((outcomes # <<>> /\ Last(outcomes).kind = "ok") => retry_pc = "returned")
        /\ (retry_pc = "loop" =>
              /\ Len(sleeps) = Len(outcomes)
              /\ attempt <= max_retries)
        /\ (retry_pc \in {"returned", "raised"} => Len(sleeps) = Len(outcomes) - 1)
        /\ ((max_retries = 0 /\ outcomes # <<>> /\ outcomes[1].kind = "rate_limit") =>
              /\ retry_pc = "raised"
              /\ sleeps = <<>>
              /\ Len(outcomes) = 1)
C33_Witness ==
    /\ mode = "retry"
    /\ max_retries = 0
    /\ retry_pc = "raised"
    /\ Len(outcomes) = 1
    /\ outcomes[1].kind = "rate_limit"
    /\ sleeps = <<>>
    /\ retry_err = RetriesExhaustedText(0, error_str)

(***************************************************************************)
(* Properties of the last pass of the two loops.                           *)
(***************************************************************************)
\* the history h ends with the assistant message resp and one tool_result
\* for each of its tool_calls, in their order
EndsAnswered(h, resp) ==
    LET n == Len(resp.tool_calls)
        p == Len(h) - n
    IN  /\ p >= 3
        /\ h[p] = resp
        /\ \A k \in 1..n : /\ h[p + k].role = "tool_result"
                           /\ h[p + k].tool_call_id = resp.tool_calls[k].id

\* C34: when AgentRunner.run or Orchestrator.run returns because its 10th
\* assistant message still carries tool_calls, every one of them was
\* dispatched and its tool_result appended to the history, no provider
\* request was made with these results, and the value returned is the
\* content of that 10th message.
C34_LastPassDispatched ==
    /\ (run_pc = "returned" /\ HasToolCalls(response)) =>
          /\ iteration = 9
          /\ Cardinality({i \in 1..Len(messages) : messages[i].role = "assistant"}) = 10
          /\ EndsAnswered(messages, response)
          /\ \A k \in 1..Len(response.tool_calls) :
                messages[Len(messages) - Len(response.tool_calls) + k].content =
                    ToolResult(tools, response.tool_calls[k].name,
                               response.tool_calls[k].args)
          /\ run_ret = response.content
          /\ retry_pc = "idle"
    /\ (sup_pc = "returned" /\ HasToolCalls(sup_response)) =>
          /\ sup_iter = 9
          /\ Cardinality({i \in 1..Len(sup_messages) :
                             sup_messages[i].role = "assistant"}) = 10
          /\ EndsAnswered(sup_messages, sup_response)
          /\ \A k \in 1..Len(sup_response.tool_calls) :
                LET name == sup_response.tool_calls[k].args.agent_name
                    text == sup_messages[Len(sup_messages)
                               - Len(sup_response.tool_calls) + k].content
                IN  IF name \in RegisteredAgents
                    THEN /\ text[1] = "[" /\ text[2] = DisplayName(name)
                         /\ \E j \in 1..Len(delegated) : delegated[j] = name
                         /\ \E j \in 1..Len(agent_responses) :
                               FoldedText(agent_responses[j][1], agent_responses[j][2]) = text
                    ELSE text = UnknownAgentText(name)
          /\ sup_ret = sup_response.content
          /\ run_pc = "idle"
C34_Witness ==
    /\ sup_pc = "returned"
    /\ sup_iter = 9
    /\ Len(sup_response.tool_calls) = 2
    /\ sup_response.tool_calls[2].args.agent_name = "architekt"
    /\ delegated = <<"architekt">>
    /\ Last(sup_messages).role = "tool_result"
    /\ Last(sup_messages).content[1] = "["
    /\ sup_ret = <<"supervisor ">> \o ReplyContent(10)

(***************************************************************************)
(* Properties of the histories of the delegate runs.                       *)
(***************************************************************************)
\* C35: every delegate run starts from the history [system, user(task)] of
\* its own and holds nothing but the provider replies and tool_results of
\* this run, also when the supervisor has delegated before, to the same or
\* another agent; while a delegate runs the supervisor's history does not
\* change, and when it has returned the supervisor's history gains the one
\* tool_result folded from its answer.
C35_RunsShareNoHistory ==
    /\ [](run_pc # "idle" =>
            LET tool_call == sup_response.tool_calls[sup_tc]
                own == AssistantAt(messages)
            IN  /\ sup_pc = "delegating"
                /\ agent_name = tool_call.args.agent_name
                /\ Len(messages) >= 2
                /\ messages[1] = SystemMessage(SystemPrompt(agent_name))
                /\ messages[2] = HumanMessage(tool_call.args.task)
                /\ Cardinality(own) = iteration + (IF run_pc \in {"await", "raised"} THEN 0 ELSE 1)
                /\ \A i \in own :
                      messages[i].content =
                          ReplyContent(Cardinality({j \in own : j <= i}))
                /\ \A j \in 3..Len(messages) :
                      \/ j \in own
                      \/ /\ messages[j].role = "tool_result"
                         /\ \E i \in own : i < j /\ j <= i + Len(messages[i].tool_calls))
    /\ [][/\ (run_pc = "idle" /\ run_pc' # "idle") => Len(messages') = 2
          /\ sup_pc = "delegating" =>
                \/ sup_messages' = sup_messages
                \/ /\ run_pc = "returned"
                   /\ sup_messages' =
                        Append(sup_messages,
                               ToolMessage(FoldedText(DisplayName(agent_name), run_ret),
                                           sup_response.tool_calls[sup_tc].id))]_vars
C35_Witness ==
    /\ sup_pc = "delegating"
    /\ delegated = <<"research", "research">>
    /\ Len(agent_responses) = 1
    /\ agent_responses[1][2] = ReplyContent(1)
    /\ run_pc = "returned"
    /\ Len(messages) = 3
    /\ messages[3].content = ReplyContent(1)
    /\ Len(sup_messages) = 5

(***************************************************************************)
(* Further properties of the question pipeline.                            *)
(***************************************************************************)
\* C36: the failure placeholder recorded for a question whose agent run
\* raised stands in the prompt of every later question, in the previous
\* answers block, and in every document written from then on and in the
\* document returned.
C36_AsClaimed ==
    \A k \in 1..Len(answers) :
        agent_runs[k].end = "raised" =>
            /\ answers[k].answer_text = FailurePlaceholder(agent_runs[k].text)
            /\ \A j \in (k + 1)..Len(agent_runs) :
                  Occurs(agent_runs[j].query,
                         <<"### ">> \o answers[k].question_text \o <<"\n">>
                         \o answers[k].answer_text)
            /\ \A w \in k..Len(writes) : HoldsAnswer(writes[w].text, answers[k])
            /\ (pipe_pc = "returned" => HoldsAnswer(pipe_ret, answers[k]))

\* the write after question k has failed: k Answers, k agent runs, k - 1 writes
WriteFailedAfter(k) ==
    /\ pipe_pc = "raised"
    /\ q_index = k
    /\ Len(answers) = k
    /\ Len(agent_runs) = k
    /\ Len(writes) = k - 1

\* C38: a write of the document that fails after question k leaves
\* process_questions with that error: no placeholder is recorded for it, no
\* later question is given to an agent, nothing more is written and nothing
\* is returned; up to there every write has succeeded.
C38_WriteFailurePropagates ==
    /\ [](/\ pipe_pc = "raised" =>
                /\ output_path # ""
                /\ pipe_err = WriteFailureText(output_path)
                /\ WriteFailedAfter(q_index)
                /\ pipe_ret = <<>>
                /\ \A i \in 1..Len(answers) :
                      /\ ~Occurs(answers[i].answer_text, pipe_err)
                      /\ (agent_runs[i].end = "returned" =>
                            answers[i].answer_text = agent_runs[i].text)
          /\ (pipe_pc \in {"ask", "persist", "returned"} /\ output_path # "") =>
                Len(writes) = (IF pipe_pc = "returned" /\ questions # <<>>
                               THEN q_index ELSE q_index - 1))
    /\ [][pipe_pc = "raised" =>
            /\ pipe_pc' = "raised"
            /\ answers' = answers
            /\ agent_runs' = agent_runs
            /\ writes' = writes]_vars
C38_Witness ==
    /\ WriteFailedAfter(1)
    /\ Len(questions) = 2
    /\ agent_runs[1].end = "returned"
    /\ answers[1].answer_text = <<"yes">>
    /\ pipe_err = WriteFailureText("input")
    /\ files.input = <<>>

(***************************************************************************)
(* Properties of chat_mode.                                                *)
(***************************************************************************)
\* the turns since the latest "clear" whose agent run has returned, before
\* the turn at n
RECURSIVE SuccessfulSince(_, _)
SuccessfulSince(log, n) ==
    IF n <= 1 THEN <<>>
    ELSE LET t == log[n - 1]
         IN  IF t.did = "clear" THEN <<>>
             ELSE IF t.did = "run" /\ t.end = "returned"
                  THEN Append(SuccessfulSince(log, n - 1), t)
                  ELSE SuccessfulSince(log, n - 1)
\* the question and the answer of every turn of ts, one after the other
RECURSIVE QuestionsAndAnswers(_)
QuestionsAndAnswers(ts) ==
    IF ts = <<>> THEN <<>>
    ELSE <<<<"User: ">> \o ts[1].question,
           <<Capitalize(ts[1].agent), ": ">> \o ts[1].answer \o <<"\n">>>>
         \o QuestionsAndAnswers(Tail(ts))
\* the number of "User: " labels in a query
Labels(query) == Cardinality({i \in 1..Len(query) : query[i] = "User: "})

\* C31: the query sent to the agent in a turn of chat_mode (the agent of the
\* latest turn is running with it) holds, in order,
\* the question and the answer of every earlier turn since the latest
\* "clear" whose agent run returned, then the cleaned query of this turn,
\* and of no other turn; when there is no such turn the query is the cleaned
\* query alone.
C31_QueryCarriesHistory ==
    chat_pc = "running" =>
        LET n == Len(turns)
            earlier == SuccessfulSince(turns, n)
            cleaned == CleanedQuery(turns[n].input)
        IN  /\ turns[n].did = "run"
            /\ turns[n].query = chat_query
            /\ turns[n].question = cleaned
            /\ OccurInOrder(chat_query, QuestionsAndAnswers(earlier) \o <<cleaned>>, 1)
            /\ Labels(chat_query) = Len(earlier)
            /\ EndsWith(chat_query, cleaned)
            /\ (earlier = <<>> => chat_query = cleaned)
C31_Witness ==
    /\ Len(turns) = 4
    /\ chat_pc = "running"
    /\ turns[1].did = "run" /\ turns[1].end = "returned" /\ turns[1].answer = <<"yes">>
    /\ turns[2].did = "run" /\ turns[2].end = "raised"
    /\ turns[3].did = "run" /\ turns[3].end = "returned" /\ turns[3].answer = <<"no">>
    /\ turns[1].input = <<"@arch", "design">>
    /\ turns[2].input = <<"@PM">>
    /\ turns[3].input = <<"@x", "why">>
    /\ turns[4].input = <<"@arch", "design">>
    /\ chat_query = <<"Bisheriger Chat-Verlauf:\n",
                      "\n", "User: ", "design", "\n", "Architekt", ": ", "yes", "\n",
                      "\n", "User: ", "@x", "why", "\n", "Research", ": ", "no", "\n",
                      "\n\nAktuelle Frage:\n", "design">>

\* what the history holds of a turn
Entry(t) == <<t.question, t.agent, t.answer>>

\* C37: the history of chat_mode holds one entry for every agent run that
\* has returned since the latest "clear"; a step appends that one entry,
\* empties the history on "clear" or leaves it as it is; a run that raises,
\* an empty line and "help" leave the history as it is and the loop goes on;
\* the loop ends only on "exit", on an interrupt or on the end of the input.
C37_HistoryPerSuccessfulRun ==
    /\ [](LET done == SuccessfulSince(turns, Len(turns) + 1)
          IN  chat_history = [k \in 1..Len(done) |-> Entry(done[k])])
    /\ [][/\ \/ chat_history' = chat_history
             \/ /\ chat_pc = "running"
                /\ Last(turns').end = "returned"
                /\ chat_history' = Append(chat_history, Entry(Last(turns')))
             \/ /\ Len(turns') = Len(turns) + 1
                /\ Last(turns').did = "clear"
                /\ chat_history' = <<>>
          /\ (turns' # turns /\ Last(turns').did = "clear") =>
                (chat_history' = <<>> /\ chat_pc' = "input")
          /\ (turns' # turns /\ Last(turns').did \in {"help", "skip"}) =>
                (chat_history' = chat_history /\ chat_pc' = "input")
          /\ (turns' # turns /\ Last(turns').end = "raised") =>
                (chat_history' = chat_history /\ chat_pc' = "input")
          /\ (chat_pc \in {"input", "running"} /\ chat_pc' \in {"ended", "interrupted"}) =>
                \/ /\ Len(turns') = Len(turns) + 1
                   /\ LowerText(Last(turns').input) = <<"exit">>
                \/ /\ chat_pc = "input" /\ turns' = turns
                \/ /\ chat_pc = "running" /\ Last(turns').end = "interrupted"
          /\ (chat_pc \in {"ended", "interrupted"} => chat_pc' = chat_pc)]_vars
C37_Witness ==
    /\ chat_pc = "input"
    /\ Len(turns) = 4
    /\ turns[1].end = "raised"
    /\ turns[2].end = "returned"
    /\ turns[3].did = "help"
    /\ turns[4].end = "raised"
    /\ chat_history = <<<<<<"design">>, "architekt", <<"yes">>>>>>

====
